---- MODULE Spec2Model ----
(***************************************************************************)
(* Consensus-resolution pipeline of the Counsel of LLMs:                   *)
(* functions/debate_logic.py (consensus filler, tier harmonizer),          *)
(* agents/debate_orchestrator.py (multi-round debate) and                  *)
(* agents/gradio_responses.py (research session, response_quaterly).       *)
(*                                                                         *)
(* Text is modelled as Python str values: sequences of one-character       *)
(* strings.  lower(), capitalize(), split(), substring search and the two  *)
(* regular expressions are computed character by character.                *)
(***************************************************************************)
EXTENDS Integers, Sequences, FiniteSets, TLC

(***************************************************************************)
(* Python str primitives                                                   *)
(***************************************************************************)

\* Python's None, kept comparable with str values: no text holds this element.
None == <<"<None>">>

\* The characters are those of Latin-1, chr(1) .. chr(255), and the three
\* further ones that lower() and capitalize() lead to from them: the Greek
\* letter mu in both cases and chr(376), the capital of chr(255), which a
\* string of this module cannot hold and which is written "<U+0178>".

\* the characters c with c.lower() != c, and c.lower() for each
UpperLetters ==
  <<"A","B","C","D","E","F","G","H","I","J","K","L","M",
    "N","O","P","Q","R","S","T","U","V","W","X","Y","Z",
    "À","Á","Â","Ã","Ä","Å","Æ","Ç","È","É","Ê","Ë","Ì",
    "Í","Î","Ï","Ð","Ñ","Ò","Ó","Ô","Õ","Ö","Ø","Ù","Ú",
    "Û","Ü","Ý","Þ","<U+0178>","Μ">>

LowerLetters ==
  <<"a","b","c","d","e","f","g","h","i","j","k","l","m",
    "n","o","p","q","r","s","t","u","v","w","x","y","z",
    "à","á","â","ã","ä","å","æ","ç","è","é","ê","ë","ì",
    "í","î","ï","ð","ñ","ò","ó","ô","õ","ö","ø","ù","ú",
    "û","ü","ý","þ","ÿ","μ">>

\* the characters c with c.capitalize() != c, and c.capitalize() for each
TitledLetters ==
  <<"a","b","c","d","e","f","g","h","i","j","k","l","m",
    "n","o","p","q","r","s","t","u","v","w","x","y","z",
    "µ","ß","à","á","â","ã","ä","å","æ","ç","è","é","ê",
    "ë","ì","í","î","ï","ð","ñ","ò","ó","ô","õ","ö","ø",
    "ù","ú","û","ü","ý","þ","ÿ","μ">>

TitleForms ==
  <<<<"A">>,<<"B">>,<<"C">>,<<"D">>,<<"E">>,<<"F">>,<<"G">>,<<"H">>,
    <<"I">>,<<"J">>,<<"K">>,<<"L">>,<<"M">>,<<"N">>,<<"O">>,<<"P">>,
    <<"Q">>,<<"R">>,<<"S">>,<<"T">>,<<"U">>,<<"V">>,<<"W">>,<<"X">>,
    <<"Y">>,<<"Z">>,<<"Μ">>,<<"S","s">>,<<"À">>,<<"Á">>,<<"Â">>,<<"Ã">>,
    <<"Ä">>,<<"Å">>,<<"Æ">>,<<"Ç">>,<<"È">>,<<"É">>,<<"Ê">>,<<"Ë">>,
    <<"Ì">>,<<"Í">>,<<"Î">>,<<"Ï">>,<<"Ð">>,<<"Ñ">>,<<"Ò">>,<<"Ó">>,
    <<"Ô">>,<<"Õ">>,<<"Ö">>,<<"Ø">>,<<"Ù">>,<<"Ú">>,<<"Û">>,<<"Ü">>,
    <<"Ý">>,<<"Þ">>,<<"<U+0178>">>,<<"Μ">>>>

Digits == {"0","1","2","3","4","5","6","7","8","9"}

\* the characters str.split() and the regex class \s treat as separators:
\* tab, line feed, vertical tab, form feed, carriage return, the four
\* separators chr(28) .. chr(31), space, next line and no-break space
Whitespace ==
  {"\t","\n","","\f","\r","","","",""," ",""," "}

\* the lower-case form of each character that has another one
ToLower == [c \in {UpperLetters[i] : i \in 1..Len(UpperLetters)} |->
              LowerLetters[CHOOSE i \in 1..Len(UpperLetters) : UpperLetters[i] = c]]

\* the title-case form of each character that has another one
ToTitle == [c \in {TitledLetters[i] : i \in 1..Len(TitledLetters)} |->
              TitleForms[CHOOSE i \in 1..Len(TitledLetters) : TitledLetters[i] = c]]

LowerChar(c) == IF c \in DOMAIN ToLower THEN ToLower[c] ELSE c

\* the characters the first character of a capitalized text becomes
TitleChar(c) == IF c \in DOMAIN ToTitle THEN ToTitle[c] ELSE <<c>>

\* str.lower()
Lower(s) == [i \in 1..Len(s) |-> LowerChar(s[i])]

\* str.capitalize(): first character title-cased, the rest lower-cased
Capitalize(s) ==
  IF s = <<>> THEN <<>>
  ELSE TitleChar(s[1]) \o [i \in 1..(Len(s) - 1) |-> LowerChar(s[i + 1])]

\* sub in s
Contains(s, sub) ==
  \E i \in 0..(Len(s) - Len(sub)) : SubSeq(s, i + 1, i + Len(sub)) = sub

\* length of the longest prefix of s made of characters satisfying "not in stop"
RECURSIVE RunLength(_, _)
RunLength(s, stop) ==
  IF s = <<>> \/ s[1] \in stop THEN 0 ELSE 1 + RunLength(Tail(s), stop)

\* str.split() without arguments: the whitespace-separated tokens, none empty
RECURSIVE Split(_)
Split(s) ==
  IF s = <<>> THEN <<>>
  ELSE IF s[1] \in Whitespace THEN Split(Tail(s))
  ELSE LET n == RunLength(s, Whitespace)
       IN  <<SubSeq(s, 1, n)>> \o Split(SubSeq(s, n + 1, Len(s)))

\* the phrase every stage treats as "no rating given"
NotEnoughInformation ==
  <<"n","o","t"," ","e","n","o","u","g","h"," ",
    "i","n","f","o","r","m","a","t","i","o","n">>

\* the test "not raw_rating or 'not enough information' in raw_rating.lower()"
IsMissingText(raw) == raw = <<>> \/ Contains(Lower(raw), NotEnoughInformation)

\* raw_rating.split()[0] raises IndexError when the text is only whitespace
FirstTokenRaises(raw) == ~IsMissingText(raw) /\ Split(raw) = <<>>

\* raw_rating.split()[0].capitalize(), or None for a missing rating
FirstWord(raw) ==
  IF IsMissingText(raw) THEN None ELSE Capitalize(Head(Split(raw)))

(***************************************************************************)
(* Analyses: one dict per analyst, key -> text; a key may be absent        *)
(***************************************************************************)

\* number of metrics of METRICS the model enumerates
NumMetrics == 2

METRICS ==
  SubSeq(<<"revenue", "net_income", "gross_margin", "operational_costs",
           "cash_flow", "quaterly_growth", "total_assets", "total_debt">>,
         1, NumMetrics)

\* f"{metric}_reason"
ReasonKey(metric) ==
  [revenue |-> "revenue_reason", net_income |-> "net_income_reason",
   gross_margin |-> "gross_margin_reason",
   operational_costs |-> "operational_costs_reason",
   cash_flow |-> "cash_flow_reason", quaterly_growth |-> "quaterly_growth_reason",
   total_assets |-> "total_assets_reason", total_debt |-> "total_debt_reason"][metric]

\* dict.get(key, default)
Get(d, key, default) == IF key \in DOMAIN d THEN d[key] ELSE default

\* d[key] = value
Put(d, key, value) ==
  [k \in (DOMAIN d) \cup {key} |-> IF k = key THEN value ELSE d[k]]

\* [f(x) for x in seq if keep]
RECURSIVE SelectNotNone(_)
SelectNotNone(seq) ==
  IF seq = <<>> THEN <<>>
  ELSE IF Head(seq) = None THEN SelectNotNone(Tail(seq))
  ELSE <<Head(seq)>> \o SelectNotNone(Tail(seq))

\* the per-analyst list "ratings" both stages build for a metric
CollectRatings(analyses, metric) ==
  [i \in 1..Len(analyses) |-> FirstWord(Get(analyses[i], metric, <<>>))]

\* some analyst's text for some metric makes split()[0] raise
CollectRaises(analyses) ==
  \E i \in 1..Len(analyses) : \E k \in 1..Len(METRICS) :
    FirstTokenRaises(Get(analyses[i], METRICS[k], <<>>))

SeqToSet(seq) == {seq[i] : i \in 1..Len(seq)}

(***************************************************************************)
(* functions/debate_logic.py: consensus filler                             *)
(***************************************************************************)

\* indices i (in list order) whose element is None
MissingIndices(ratings) ==
  LET RECURSIVE From(_)
      From(i) == IF i > Len(ratings) THEN <<>>
                 ELSE IF ratings[i] = None THEN <<i>> \o From(i + 1)
                 ELSE From(i + 1)
  IN  From(1)

\* f"Filled by consensus ({consensus_value})"
FilledByConsensus(value) ==
  <<"F","i","l","l","e","d"," ","b","y"," ","c","o","n","s","e","n","s","u","s"," ","(">> \o value \o <<")">>

\* FillMetric without the test that the remaining ratings all agree
FillMetric_AnyRemaining(analyses, filled, metric) ==
  LET ratings         == CollectRatings(analyses, metric)
      missing_indices == MissingIndices(ratings)
      non_missing     == SelectNotNone(ratings)
  IN  IF Len(missing_indices) # 1 \/ non_missing = <<>> THEN filled
      ELSE [filled EXCEPT ![missing_indices[1]] =
              Put(Put(@, metric, non_missing[1]),
                  ReasonKey(metric), FilledByConsensus(non_missing[1]))]

\* FillMetric filling the rating and leaving the reason field alone
FillMetric_RatingOnly(analyses, filled, metric) ==
  LET ratings         == CollectRatings(analyses, metric)
      missing_indices == MissingIndices(ratings)
      non_missing     == SelectNotNone(ratings)
  IN  IF Len(missing_indices) # 1 THEN filled
      ELSE IF Cardinality(SeqToSet(non_missing)) # 1 THEN filled
      ELSE [filled EXCEPT ![missing_indices[1]] = Put(@, metric, non_missing[1])]

\* one iteration of the loop "for metric in METRICS" of fill_missing_with_consensus
FillMetric(analyses, filled, metric) ==
  LET ratings         == CollectRatings(analyses, metric)
      missing_indices == MissingIndices(ratings)
      non_missing     == SelectNotNone(ratings)
  IN  IF Len(missing_indices) # 1 THEN filled
      ELSE IF Cardinality(SeqToSet(non_missing)) # 1 THEN filled
      ELSE LET consensus_value == non_missing[1]
               missing_idx     == missing_indices[1]
           IN  [filled EXCEPT ![missing_idx] =
                  Put(Put(@, metric, consensus_value),
                      ReasonKey(metric), FilledByConsensus(consensus_value))]

RECURSIVE FillFrom(_, _, _)
FillFrom(analyses, filled, k) ==
  IF k > Len(METRICS) THEN filled
  ELSE FillFrom(analyses, FillMetric(analyses, filled, METRICS[k]), k + 1)

\* fill_missing_with_consensus(analyses): the returned list, or the IndexError
\* of split()[0]
fill_missing_with_consensus(analyses) ==
  IF CollectRaises(analyses)
  THEN [raised |-> TRUE, filled |-> <<>>]
  ELSE [raised |-> FALSE, filled |-> FillFrom(analyses, analyses, 1)]

(***************************************************************************)
(* functions/debate_logic.py: tier harmonizer                              *)
(***************************************************************************)

POSITIVE_TIER == {<<"e","x","c","e","l","l","e","n","t">>, <<"g","o","o","d">>}
NEGATIVE_TIER == {<<"b","a","d">>, <<"h","o","r","r","i","b","l","e">>}
NEUTRAL_TIER == {<<"n","e","u","t","r","a","l">>}

\* _get_tier with Neutral counted in the positive tier
_get_tier_NeutralPositive(rating) ==
  LET rating_lower == Lower(rating)
  IN  IF rating_lower \in POSITIVE_TIER \cup NEUTRAL_TIER THEN "positive"
      ELSE IF rating_lower \in NEGATIVE_TIER THEN "negative"
      ELSE "unknown"

_get_tier(rating) ==
  LET rating_lower == Lower(rating)
  IN  IF rating_lower \in POSITIVE_TIER THEN "positive"
      ELSE IF rating_lower \in NEGATIVE_TIER THEN "negative"
      ELSE IF rating_lower \in NEUTRAL_TIER THEN "neutral"
      ELSE "unknown"

\* number of occurrences of x in seq
CountOf(seq, x) == Cardinality({i \in 1..Len(seq) : seq[i] = x})

\* the keys of Counter(seq), in insertion (first-seen) order
CounterKeys(seq) ==
  LET RECURSIVE From(_)
      From(i) == IF i > Len(seq) THEN <<>>
                 ELSE IF \E j \in 1..(i - 1) : seq[j] = seq[i] THEN From(i + 1)
                 ELSE <<seq[i]>> \o From(i + 1)
  IN  From(1)

\* Counter(seq).most_common(): (key, count) pairs by decreasing count, equal
\* counts in insertion order
MostCommon(seq) ==
  LET keys == CounterKeys(seq)
      Before(a, b) == \/ CountOf(seq, keys[a]) > CountOf(seq, keys[b])
                      \/ CountOf(seq, keys[a]) = CountOf(seq, keys[b]) /\ a < b
      Rank(a) == Cardinality({b \in 1..Len(keys) : Before(b, a)})
  IN  [r \in 1..Len(keys) |->
         LET a == CHOOSE a \in 1..Len(keys) : Rank(a) = r - 1
         IN  <<keys[a], CountOf(seq, keys[a])>>]

\* [r.lower() for r in ratings if r]
LoweredNonEmpty(ratings) ==
  LET RECURSIVE From(_)
      From(i) == IF i > Len(ratings) THEN <<>>
                 ELSE IF ratings[i] = <<>> \/ ratings[i] = None THEN From(i + 1)
                 ELSE <<Lower(ratings[i])>> \o From(i + 1)
  IN  From(1)

\* _get_majority with equal counts decided for the rating seen last
_get_majority_LastSeen(ratings) ==
  LET counts   == LoweredNonEmpty(ratings)
      backward == [i \in 1..Len(counts) |-> counts[Len(counts) + 1 - i]]
  IN  IF counts # <<>> THEN Capitalize(MostCommon(backward)[1][1])
      ELSE IF ratings # <<>> THEN ratings[1] ELSE None

\* _get_majority taking the first rating instead of the most common one
_get_majority_First(ratings) ==
  IF ratings # <<>> THEN Capitalize(ratings[1]) ELSE None

_get_majority(ratings) ==
  LET counts == LoweredNonEmpty(ratings)
  IN  IF counts # <<>> THEN Capitalize(MostCommon(counts)[1][1])
      ELSE IF ratings # <<>> THEN ratings[1] ELSE None

\* the word the harmonizer looks for before annotating a rationale
HarmonizedWord == <<"H","a","r","m","o","n","i","z","e","d">>

\* f"{original_reason} [Harmonized to {majority}]"
HarmonizedNote(original_reason, majority) ==
  original_reason \o <<" ","[","H","a","r","m","o","n","i","z","e","d"," ","t","o"," ">> \o majority \o <<"]">>

\* HarmonizeAnalyst annotating the rationale without overwriting the rating
HarmonizeAnalyst_ReasonOnly(analysis, ratings_i, metric, majority) ==
  IF ratings_i = None THEN analysis
  ELSE LET reason_key      == ReasonKey(metric)
           original_reason == Get(analysis, reason_key, <<>>)
       IN  IF original_reason # <<>> /\ ~Contains(original_reason, HarmonizedWord)
           THEN Put(analysis, reason_key, HarmonizedNote(original_reason, majority))
           ELSE analysis

\* HarmonizeAnalyst without the test "ratings[i] is not None"
HarmonizeAnalyst_AlsoMissing(analysis, ratings_i, metric, majority) ==
  LET reason_key      == ReasonKey(metric)
      original_reason == Get(analysis, reason_key, <<>>)
      rated           == Put(analysis, metric, majority)
  IN  IF original_reason # <<>> /\ ~Contains(original_reason, HarmonizedWord)
      THEN Put(rated, reason_key, HarmonizedNote(original_reason, majority))
      ELSE rated

\* the branch "all same tier but different values" applied to analyst i
HarmonizeAnalyst(analysis, ratings_i, metric, majority) ==
  IF ratings_i = None THEN analysis
  ELSE LET reason_key      == ReasonKey(metric)
           original_reason == Get(analysis, reason_key, <<>>)
           rated           == Put(analysis, metric, majority)
       IN  IF original_reason # <<>> /\ ~Contains(original_reason, HarmonizedWord)
           THEN Put(rated, reason_key, HarmonizedNote(original_reason, majority))
           ELSE rated

\* one iteration of the loop "for metric in METRICS" of
\* harmonize_and_check_debates; acc holds harmonized, metrics_to_debate and
\* harmonization_log as built so far
HarmonizeMetric(analyses, acc, metric) ==
  LET ratings       == CollectRatings(analyses, metric)
      valid_ratings == SelectNotNone(ratings)
      tiers         == {_get_tier(valid_ratings[i]) : i \in 1..Len(valid_ratings)}
  IN  IF Len(valid_ratings) < 2
      THEN [acc EXCEPT !.harmonization_log = Append(@,
              [metric |-> metric, action |-> "skipped",
               reason |-> "insufficient_data", ratings |-> ratings])]
      ELSE IF Cardinality({Lower(valid_ratings[i]) : i \in 1..Len(valid_ratings)}) = 1
      THEN [acc EXCEPT !.harmonization_log = Append(@,
              [metric |-> metric, action |-> "already_aligned",
               ratings |-> ratings, result |-> Capitalize(valid_ratings[1])])]
      ELSE IF "neutral" \in tiers
      THEN [acc EXCEPT !.metrics_to_debate = Append(@, metric),
                       !.harmonization_log = Append(@,
              [metric |-> metric, action |-> "debate",
               reason |-> "neutral_present", ratings |-> ratings])]
      ELSE IF "positive" \in tiers /\ "negative" \in tiers
      THEN [acc EXCEPT !.metrics_to_debate = Append(@, metric),
                       !.harmonization_log = Append(@,
              [metric |-> metric, action |-> "debate",
               reason |-> "cross_tier_conflict", ratings |-> ratings])]
      ELSE LET majority == _get_majority(valid_ratings)
           IN  [acc EXCEPT
                  !.harmonized_analyses =
                     [i \in 1..Len(@) |-> HarmonizeAnalyst(@[i], ratings[i], metric, majority)],
                  !.harmonization_log = Append(@,
                     [metric |-> metric, action |-> "harmonized",
                      original |-> ratings, result |-> majority])]

\* the loop of harmonize_and_check_debates going through METRICS backwards
HarmonizeFrom_Backwards(analyses, acc, k) ==
  LET RECURSIVE Back(_, _)
      Back(sofar, j) ==
        IF j < k THEN sofar
        ELSE Back(HarmonizeMetric(analyses, sofar, METRICS[j]), j - 1)
  IN  Back(acc, Len(METRICS))

RECURSIVE HarmonizeFrom(_, _, _)
HarmonizeFrom(analyses, acc, k) ==
  IF k > Len(METRICS) THEN acc
  ELSE HarmonizeFrom(analyses, HarmonizeMetric(analyses, acc, METRICS[k]), k + 1)

\* harmonize_and_check_debates(analyses): the returned dict, or the IndexError
\* of split()[0]
harmonize_and_check_debates(analyses) ==
  IF CollectRaises(analyses)
  THEN [raised |-> TRUE, harmonized_analyses |-> <<>>,
        metrics_to_debate |-> <<>>, harmonization_log |-> <<>>]
  ELSE HarmonizeFrom(analyses,
         [raised |-> FALSE, harmonized_analyses |-> analyses,
          metrics_to_debate |-> <<>>, harmonization_log |-> <<>>], 1)

(***************************************************************************)
(* agents/debate_orchestrator.py: rating extraction and the majority       *)
(***************************************************************************)

VALID_RATINGS == {<<"e","x","c","e","l","l","e","n","t">>, <<"g","o","o","d">>, <<"n","e","u","t","r","a","l">>, <<"b","a","d">>, <<"h","o","r","r","i","b","l","e">>}

\* the sentinel of a three-way tie
COMPLEX == <<"C","O","M","P","L","E","X">>

\* the regex class \w of a str pattern: letters, digits and the underscore
WordChars ==
  {UpperLetters[i] : i \in 1..Len(UpperLetters)}
    \cup {LowerLetters[i] : i \in 1..Len(LowerLetters)}
    \cup Digits \cup {"_"}
    \cup {"ª","²","³","µ","¹","º","¼","½","¾","ß"}

\* length of the longest prefix of s made of characters of class
RECURSIVE ClassRun(_, _)
ClassRun(s, class) ==
  IF s = <<>> \/ s[1] \notin class THEN 0 ELSE 1 + ClassRun(Tail(s), class)

\* s[i:] as a Python slice (1-based i)
From(s, i) == SubSeq(s, i, Len(s))

\* the n characters of s from position i, fewer where s ends before
Slice(s, i, n) == SubSeq(s, i, IF i + n - 1 <= Len(s) THEN i + n - 1 ELSE Len(s))

\* the group (\w+) of  <first>\s+<second>\s*(\w+)  matched at position i of s
\* ignoring case, or None when the pattern does not match there
MarkerAt(s, i, first, second) ==
  IF Lower(Slice(s, i, Len(first))) # first THEN None
  ELSE LET j  == i + Len(first)
           ws == ClassRun(From(s, j), Whitespace)
           k  == j + ws
       IN  IF ws = 0 \/ Lower(Slice(s, k, Len(second))) # second THEN None
           ELSE LET l == k + Len(second)
                    g == l + ClassRun(From(s, l), Whitespace)
                    n == ClassRun(From(s, g), WordChars)
                IN  IF n = 0 THEN None ELSE SubSeq(s, g, g + n - 1)

\* re.search(...).group(1): the group of the leftmost match, or None
MarkerSearch(s, first, second) ==
  LET hits == {i \in 1..Len(s) : MarkerAt(s, i, first, second) # None}
  IN  IF hits = {} THEN None
      ELSE MarkerAt(s, CHOOSE i \in hits : \A h \in hits : i <= h, first, second)

\* the shared body of _extract_updated_rating and _extract_final_rating
ExtractRating(response, first) ==
  LET group == MarkerSearch(response, first, <<"r","a","t","i","n","g",":">>)
  IN  IF group # None /\ Lower(group) \in VALID_RATINGS
      THEN Capitalize(Lower(group)) ELSE None

_extract_updated_rating(response) == ExtractRating(response, <<"u","p","d","a","t","e","d">>)

_extract_final_rating(response) == ExtractRating(response, <<"f","i","n","a","l">>)

\* _get_majority_rating with the majority test "count > 1" dropped
_get_majority_rating_Plurality(ratings) ==
  LET counts == LoweredNonEmpty(ratings)
  IN  IF ratings = <<>> \/ counts = <<>> THEN None
      ELSE Capitalize(MostCommon(counts)[1][1])

_get_majority_rating(ratings) ==
  LET counts == LoweredNonEmpty(ratings)
  IN  IF ratings = <<>> THEN None
      ELSE IF counts = <<>> THEN None
      ELSE LET most_common == MostCommon(counts)
           IN  IF most_common[1][2] > 1 THEN Capitalize(most_common[1][1])
               ELSE COMPLEX


(***************************************************************************)
(* functions/debate_logic.py: parsing and agreement                        *)
(***************************************************************************)

\* Optional[int]: the set holding the int, empty for None
NoInt == {}

Some(n) == {n}

RATING_MAP ==
  [t \in {<<"e","x","c","e","l","l","e","n","t">>, <<"g","o","o","d">>, <<"n","e","u","t","r","a","l">>, <<"b","a","d">>, <<"h","o","r","r","i","b","l","e">>} |->
     IF t = <<"e","x","c","e","l","l","e","n","t">> THEN 5
     ELSE IF t = <<"g","o","o","d">> THEN 4
     ELSE IF t = <<"n","e","u","t","r","a","l">> THEN 3
     ELSE IF t = <<"b","a","d">> THEN 2
     ELSE 1]

\* the test "not s or 'not enough information' in s.lower()"; None is falsy
IsMissingOrNone(s) == s = None \/ IsMissingText(s)

\* parse_metric_rating: rating_str.lower().split()[0] raises IndexError for a
\* text of whitespace only
parse_metric_rating(rating_str) ==
  IF IsMissingOrNone(rating_str) THEN [raised |-> FALSE, value |-> NoInt]
  ELSE IF Split(Lower(rating_str)) = <<>> THEN [raised |-> TRUE, value |-> NoInt]
  ELSE LET first_word == Head(Split(Lower(rating_str)))
       IN  [raised |-> FALSE,
            value |-> IF first_word \in DOMAIN RATING_MAP
                      THEN Some(RATING_MAP[first_word]) ELSE NoInt]

\* int(c) for a digit character
DigitValue ==
  [c \in Digits |->
     CHOOSE n \in 0..9 : <<"0","1","2","3","4","5","6","7","8","9">>[n + 1] = c]

\* re.search(r'(\d)/8', s): the places where a digit is followed by "/8"
ScoreMatches(s) ==
  {i \in 1..(Len(s) - 2) : s[i] \in Digits /\ s[i + 1] = "/" /\ s[i + 2] = "8"}

\* the digit of the leftmost match, None without a match
ScoreSearch(s) ==
  IF ScoreMatches(s) = {} THEN NoInt
  ELSE Some(DigitValue[s[CHOOSE i \in ScoreMatches(s) : \A j \in ScoreMatches(s) : i <= j]])

\* parse_strength_score looking for the pattern before the phrase
parse_strength_score_PatternFirst(strength_str) ==
  IF strength_str = None \/ strength_str = <<>> THEN NoInt
  ELSE IF ScoreMatches(strength_str) # {} THEN ScoreSearch(strength_str)
  ELSE NoInt

parse_strength_score(strength_str) ==
  IF IsMissingOrNone(strength_str) THEN NoInt
  ELSE ScoreSearch(strength_str)

\* max(scores) - min(scores) for a non-empty set of ints
Spread(values) ==
  (CHOOSE hi \in values : \A v \in values : v <= hi)
    - (CHOOSE lo \in values : \A v \in values : lo <= v)

\* debate_level of a score spread
DebateLevel(score_spread) ==
  IF score_spread < 2 THEN "none"
  ELSE IF score_spread = 2 THEN "small"
  ELSE "large"

\* "if len(ratings) >= 2 ... if metric_spread >= 1": a metric disagreeing
\* as soon as two parsed ratings differ
MetricDisagrees_ByOne(ratings) ==
  Len(ratings) >= 2 /\ Spread(SeqToSet(ratings)) >= 1

\* "if len(ratings) >= 2 ... if metric_spread >= 2" of calculate_agreement
MetricDisagrees(ratings) ==
  Len(ratings) >= 2 /\ Spread(SeqToSet(ratings)) >= 2

\* the parsed ratings calculate_agreement collects for a metric
ParsedRatings(analyses, metric) ==
  LET RECURSIVE Rest(_)
      Rest(i) ==
        IF i > Len(analyses) THEN <<>>
        ELSE LET rating == parse_metric_rating(Get(analyses[i], metric, <<>>)).value
             IN  IF rating # NoInt
                 THEN <<CHOOSE n \in rating : TRUE>> \o Rest(i + 1)
                 ELSE Rest(i + 1)
  IN  Rest(1)

\* calculate_agreement: scores, score_spread, metric_disagreements,
\* debate_level and missing_data, or the IndexError parse_metric_rating raises
calculate_agreement(analyses) ==
  LET parsed == [i \in 1..Len(analyses) |->
                   parse_strength_score(Get(analyses[i], "financial_strenght", <<>>))]
      scored == {i \in 1..Len(analyses) : parsed[i] # NoInt}
      values == UNION {parsed[i] : i \in scored}
      scores == LET order == SelectSeq([i \in 1..Len(analyses) |-> i], LAMBDA i : i \in scored)
                IN  [k \in 1..Len(order) |-> CHOOSE n \in parsed[order[k]] : TRUE]
      score_spread == IF Cardinality(scored) >= 2 THEN Spread(values) ELSE 0
      raises == \E i \in 1..Len(analyses) : \E k \in 1..Len(METRICS) :
                  parse_metric_rating(Get(analyses[i], METRICS[k], <<>>)).raised
  IN  [raised |-> raises,
       debate_level |-> DebateLevel(score_spread),
       score_spread |-> score_spread,
       scores |-> scores,
       metric_disagreements |->
         IF raises THEN <<>>
         ELSE SelectSeq(METRICS, LAMBDA m : MetricDisagrees(ParsedRatings(analyses, m))),
       missing_data |-> Cardinality(scored) < Len(analyses) \/ Cardinality(scored) < 2]

(***************************************************************************)
(* logs/llm_logger.py and reports/pdf_generator.py: the report's score     *)
(***************************************************************************)

\* the eight metrics a report rates
ReportMetrics ==
  <<"revenue", "net_income", "gross_margin", "operational_costs",
    "cash_flow", "quaterly_growth", "total_assets", "total_debt">>

score_map ==
  [t \in {<<"e","x","c","e","l","l","e","n","t">>, <<"g","o","o","d">>, <<"n","e","u","t","r","a","l">>, <<"b","a","d">>, <<"h","o","r","r","i","b","l","e">>, <<"c","o","m","p","l","e","x">>} |->
     IF t = <<"e","x","c","e","l","l","e","n","t">> THEN 2
     ELSE IF t = <<"g","o","o","d">> THEN 1
     ELSE IF t = <<"b","a","d">> THEN 0 - 1
     ELSE IF t = <<"h","o","r","r","i","b","l","e">> THEN 0 - 2
     ELSE 0]

\* score_map.get(rating.lower() if rating else "", 0)
ScoreOf(rating) ==
  IF rating = None \/ rating = <<>> THEN 0
  ELSE IF Lower(rating) \in DOMAIN score_map THEN score_map[Lower(rating)]
  ELSE 0

\* the sum over ratings.items()
RECURSIVE SumScores(_, _)
SumScores(ratings, keys) ==
  IF keys = <<>> THEN 0
  ELSE ScoreOf(ratings[Head(keys)]) + SumScores(ratings, Tail(keys))

\* every key of a dict of ratings, as ratings.items() goes through them; a
\* dict is a function here and keeps no order of insertion, and the sum
\* taken over the keys does not depend on one
KeysOf(ratings) ==
  LET RECURSIVE Rest(_)
      Rest(keys) ==
        IF keys = {} THEN <<>>
        ELSE LET key == CHOOSE key \in keys : TRUE
             IN  <<key>> \o Rest(keys \ {key})
  IN  Rest(DOMAIN ratings)

\* llm_logger._calculate_score counting Horrible as -1
_calculate_score_Flat(ratings) ==
  SumScores([m \in DOMAIN ratings |->
               IF Lower(ratings[m]) = <<"h","o","r","r","i","b","l","e">> THEN <<"b","a","d">> ELSE ratings[m]],
            KeysOf(ratings))

\* llm_logger._calculate_score
_calculate_score(ratings) == SumScores(ratings, KeysOf(ratings))

\* log_final_report: the verdict label of a score
LogVerdict(score) ==
  IF score <= 0 - 11 THEN "Extremely Risky"
  ELSE IF score <= 0 - 4 THEN "Risky"
  ELSE IF score <= 3 THEN "Neutral"
  ELSE IF score <= 10 THEN "Safe"
  ELSE "Extremely Safe"

\* pdf_generator._calculate_score
pdf_calculate_score(ratings) == SumScores(ratings, KeysOf(ratings))

\* pdf_generator._get_verdict
_get_verdict(score) ==
  IF score <= 0 - 11 THEN "Extremely Risky"
  ELSE IF score <= 0 - 4 THEN "Risky"
  ELSE IF score <= 3 THEN "Neutral"
  ELSE IF score <= 10 THEN "Safe"
  ELSE "Extremely Safe"

(***************************************************************************)
(* Inputs: what an analyst may return                                      *)
(***************************************************************************)

\* the analysts of a session, in configured order
LLM_CONFIGS == <<"OpenAI", "Claude", "Mistral">>

\* a rating text an analyst may give for a metric
RatingTexts ==
  { <<"G","o","o","d">>,
    <<"e","x","c","e","l","l","e","n","t">>,
    <<"N","e","u","t","r","a","l">>,
    <<"B","a","d">>,
    <<"H","o","r","r","i","b","l","e">>,
    <<>>,
    <<"N","o","t"," ","E","n","o","u","g","h"," ","I","n","f","o","r","m","a","t","i","o","n">>,
    <<"G","O","O","D"," ","-"," ","s","o","l","i","d">>,
    <<"S","t","r","o","n","g">>,
    <<" ">> }

\* marks a key the analyst's dict does not hold at all
Absent == <<"<absent>">>

\* a rationale text an analyst may give for a metric
ReasonTexts ==
  << Absent,
     <<"S","o","l","i","d",".">>,
     <<"S","o","l","i","d","."," ","[","H","a","r","m","o","n","i","z","e","d"," ","t","o"," ","G","o","o","d","]">> >>

\* the ratings of the metrics that are not the varied one: aligned, same
\* tier, in need of debate
SampleColumns ==
  { << <<"G","o","o","d">>, <<"G","o","o","d">>, <<"G","o","o","d">> >>,
    << <<"G","o","o","d">>, <<"e","x","c","e","l","l","e","n","t">>, <<"e","x","c","e","l","l","e","n","t">> >>,
    << <<"B","a","d">>, <<"N","e","u","t","r","a","l">>, <<"G","o","o","d">> >> }

\* the dict of analyst i: column[k][i] is its rating text for METRICS[k],
\* reasons[i] its rationale for every metric
MakeAnalysis(i, columns, reasons) ==
  LET rated   == {METRICS[k] : k \in {k \in 1..Len(METRICS) : columns[k][i] # Absent}}
      argued  == IF reasons[i] = Absent THEN {}
                 ELSE {ReasonKey(METRICS[k]) : k \in 1..Len(METRICS)}
      MetricOf(key) == CHOOSE k \in 1..Len(METRICS) : METRICS[k] = key
  IN  [key \in rated \cup argued \cup {"financial_strenght", "overall_summary"} |->
         IF key \in rated THEN columns[MetricOf(key)][i]
         ELSE IF key \in argued THEN reasons[i]
         ELSE IF key = "financial_strenght" THEN <<"7","/","8">>
         ELSE <<"S","o","u","n","d",".">>]

MakeAnalyses(n, columns, reasons) ==
  [i \in 1..n |-> MakeAnalysis(i, columns, reasons)]

\* the rotation of ReasonTexts by r places
RotatedReasons(r) == [i \in 1..3 |-> ReasonTexts[((i + r) % 3) + 1]]

\* an argument list of the stages: n analysts; the ratings of METRICS[varied]
\* are column, any texts an analyst may return; those of the other metrics
\* are sample columns
StageInput(n, varied, column, others) ==
  MakeAnalyses(n, [k \in 1..Len(METRICS) |-> IF k = varied THEN column ELSE others[k]],
               RotatedReasons(varied - 1))

(***************************************************************************)
(* Inputs of a research session                                            *)
(***************************************************************************)

\* the tickers researched; what the analysts say depends on the ticker
Tickers == {"AAA", "BBB", "CCC", "DDD"}

\* the ticker symbols as the checker agent writes them
Symbol ==
  [AAA |-> <<"A","A","A">>, BBB |-> <<"B","B","B">>,
   CCC |-> <<"C","C","C">>, DDD |-> <<"D","D","D">>]

\* the ticker a symbol stands for
TickerOf(symbol) == CHOOSE ticker \in Tickers : Symbol[ticker] = symbol

\* f"We will research the ticker {ticker_symbol}"
ResearchReply(symbol) ==
  <<"W","e"," ","w","i","l","l"," ","r","e","s","e","a","r","c","h"," ","t","h","e"," ","t","i","c","k","e","r"," ">> \o symbol

\* what the checker agent may answer to the user's message: that a ticker
\* will be researched, the same followed by a line break, a question back,
\* nothing
CheckerReplies ==
  {ResearchReply(Symbol[ticker]) : ticker \in Tickers}
    \cup { ResearchReply(Symbol["AAA"]) \o <<"\n">>,
           <<"W","h","i","c","h"," ","t","i","c","k","e","r","?">>,
           <<>> }

\* the analysts' ratings of the first metric, per ticker
FirstColumn ==
  [AAA |-> << <<"G","o","o","d"," ","-"," ","s","t","e","a","d","y">>, <<"g","o","o","d"," ","-"," ","s","t","e","a","d","y">>, <<"B","a","d">> >>,
   BBB |-> << <<"G","o","o","d">>, <<"B","a","d">>, <<"N","e","u","t","r","a","l">> >>,
   CCC |-> << <<"G","o","o","d">>, <<"B","a","d">>, <<"N","o","t"," ","e","n","o","u","g","h"," ","i","n","f","o","r","m","a","t","i","o","n">> >>,
   DDD |-> << <<"G","o","o","d">>, <<"E","x","c","e","l","l","e","n","t">>, <<"G","o","o","d">> >>]

\* the analysts' ratings of the second metric, per ticker
SecondColumn ==
  [AAA |-> << <<"e","x","c","e","l","l","e","n","t">>, <<"G","o","o","d">>, <<"G","o","o","d">> >>,
   BBB |-> << <<"e","x","c","e","l","l","e","n","t">>, <<"G","o","o","d">>, <<"H","o","r","r","i","b","l","e">> >>,
   CCC |-> << <<"G","o","o","d">>, <<"G","o","o","d">>, <<>> >>,
   DDD |-> << <<"B","a","d">>, <<"B","a","d">>, <<"B","a","d">> >>]

\* the analysts' composite scores, per ticker
StrengthColumn ==
  [AAA |-> << <<"7","/","8">>, <<"7","/","8">>, <<"6","/","8">> >>,
   BBB |-> << <<"7","/","8">>, <<"7","/","8">>, <<"7","/","8">> >>,
   CCC |-> << <<"6","/","8">>, <<"4","/","8">>, <<"6","/","8">> >>,
   DDD |-> << <<"8","/","8">>, <<"5","/","8">>, <<"2","/","8">> >>]

\* the structured data analyst i returns for the ticker of a symbol
AnalystData(symbol, i) ==
  Put(MakeAnalysis(i, [k \in 1..Len(METRICS) |->
                         IF k = 1 THEN FirstColumn[TickerOf(symbol)]
                         ELSE IF k = 2 THEN SecondColumn[TickerOf(symbol)]
                         ELSE << <<"G","o","o","d">>, <<"G","o","o","d">>, <<"G","o","o","d">> >>],
                   RotatedReasons(0)),
      "financial_strenght", StrengthColumn[TickerOf(symbol)][i])

\* what _extract_structured_data gives for a reply without structured data
EmptyDict == <<>>

\* the debate participants, in configured order
DEBATE_AGENTS == <<"Socrates", "Pythagoras", "Diogenes">>

\* the number of rounds response_quaterly asks run_debate for
SessionMaxRounds == 3

\* a reply without any marker
PlainResponse == <<"N","o","t","e","d",".">>

Round1Responses == {PlainResponse}

ReviewResponses ==
  { PlainResponse,
    <<"U","P","D","A","T","E","D"," ","R","A","T","I","N","G",":"," ","B","a","d">>,
    <<"I"," ","u","p","d","a","t","e","d"," "," ","r","a","t","i","n","g",":","e","x","c","e","l","l","e","n","t","!">>,
    <<"U","P","D","A","T","E","D"," ","R","A","T","I","N","G",":"," ","R","i","s","k","y">> }

FinalResponses ==
  { PlainResponse,
    <<"F","I","N","A","L"," ","R","A","T","I","N","G",":"," ","G","o","o","d">>,
    <<"f","i","n","a","l"," ","r","a","t","i","n","g",":"," ","B","A","D",".">>,
    <<"F","I","N","A","L"," ","R","A","T","I","N","G",":"," ","U","n","s","u","r","e">> }

\* str(e) of a failed participant call
ErrorMessage == <<"t","i","m","e","o","u","t">>

\* how many participant calls of a session may fail or answer with a marker;
\* a logger call after the debate is let fail in a session with fewer
MaxDeviations == 2


(***************************************************************************)
(* State                                                                   *)
(***************************************************************************)

VARIABLES
  analyses,          \* stages: the list a stage is applied to
  filled,            \* stages: the call fill_missing_with_consensus(analyses)
  first_pass,        \* stages: a call of harmonize_and_check_debates
  second_pass,       \* stages: the harmonizer on first_pass's harmonized_analyses
  agreement,         \* stages: the call calculate_agreement(analyses)
  votes,             \* majority: a list of three final ratings
  majority,          \* majority: the call _get_majority_rating(votes)
  text,              \* parsing: a rating or score text
  parsed,            \* parsing: the calls of the two parse functions on text
  all_ratings,       \* scoring: the final rating of each metric
  report,            \* scoring: score and verdict of the log and the PDF report
  ticker_symbol,     \* session: the ticker under research
  pc,                \* session: where response_quaterly is suspended
  responses,         \* session: the three analyst calls
  analyst,           \* session: the place in LLM_CONFIGS the loop over the
                     \* responses has reached
  LLM_Answers,       \* session: the valid analyses, later the harmonized ones
  filled_analyses,   \* session: the filler's result
  harmonize_result,  \* session: the harmonizer's result
  metric_idx,        \* run_debate: index in metrics_to_debate of the metric debated
  debate_results,    \* run_debate: (metric, final rating) in insertion order
  all_transcripts,   \* run_debate: the combined transcript
  position_changes,  \* run_debate: the recorded position changes
  positions,         \* _debate_single_metric: name -> rating, reason, history
  transcript,        \* _debate_single_metric: the metric's transcript
  changes,           \* _debate_single_metric: the metric's position changes
  phase,             \* _debate_single_metric: "round1", "review" or "final"
  round_num,         \* _debate_single_metric: the number of the round
  final_ratings,     \* _debate_single_metric: the votes of the final round
  calls,             \* every _invoke_agent call issued, in order
  max_rounds,        \* run_debate: the number of rounds it was called with
  completed,         \* debate: where noted, the calls of the round under way
                     \* that are over, in the order in which they ended
  saved,             \* session: the call _save_stock_evals
  outcome,           \* session: how response_quaterly ended: "answered",
                     \* "explained", "no_filings", "saved", "all_failed" or
                     \* "error"; "running" until then
  error,             \* session: the exception that ended it, if any
  logged,            \* session: the calls of the logger so far, in order
  deviations         \* participant calls so far that failed or held a marker

stageVars == <<analyses, filled, first_pass, second_pass, agreement>>

majorityVars == <<votes, majority>>

parseVars == <<text, parsed>>

scoreVars == <<all_ratings, report>>

debateVars ==
  <<metric_idx, debate_results, all_transcripts, position_changes, positions,
    transcript, changes, phase, round_num, final_ratings, calls, max_rounds,
    completed, deviations>>

sessionVars ==
  <<ticker_symbol, pc, responses, LLM_Answers, filled_analyses, harmonize_result,
    saved, outcome, error, logged, analyst>>

vars == <<stageVars, majorityVars, parseVars, scoreVars, sessionVars, debateVars>>

NotCalled == [called |-> FALSE]

\* no research session is running
SessionIdle ==
  /\ ticker_symbol = <<>> /\ pc = "idle" /\ responses = <<>> /\ analyst = 0
  /\ LLM_Answers = <<>> /\ filled_analyses = <<>> /\ harmonize_result = NotCalled
  /\ saved = NotCalled /\ outcome = "idle" /\ error = "" /\ logged = <<>>

\* no debate is running
DebateIdle ==
  /\ metric_idx = 0 /\ debate_results = <<>> /\ all_transcripts = <<>>
  /\ position_changes = <<>> /\ positions = <<>> /\ transcript = <<>>
  /\ changes = <<>> /\ phase = "idle" /\ round_num = 0 /\ final_ratings = <<>>
  /\ calls = <<>> /\ max_rounds = 0 /\ completed = <<>> /\ deviations = 0

StagesIdle ==
  /\ analyses = <<>> /\ filled = NotCalled
  /\ first_pass = NotCalled /\ second_pass = NotCalled /\ agreement = NotCalled

MajorityIdle == votes = <<>> /\ majority = NotCalled

ParseIdle == text = <<>> /\ parsed = [rating |-> NotCalled, score |-> NotCalled]

ScoreIdle == all_ratings = <<>> /\ report = [log |-> NotCalled, pdf |-> NotCalled]

(***************************************************************************)
(* The stages as pure functions                                            *)
(***************************************************************************)

StagesInit ==
  /\ \E n \in 1..Len(LLM_CONFIGS), varied \in 1..Len(METRICS) :
       \E column \in [1..n -> RatingTexts],
          others \in [1..Len(METRICS) \ {varied} -> SampleColumns] :
         analyses = StageInput(n, varied, column, others)
  /\ filled = NotCalled
  /\ first_pass = NotCalled
  /\ second_pass = NotCalled
  /\ agreement = NotCalled
  /\ MajorityIdle /\ ParseIdle /\ ScoreIdle /\ SessionIdle /\ DebateIdle

\* the list a recorded call of the harmonizer was applied to
ArgOf(pass) ==
  IF pass.arg = "analyses" THEN analyses
  ELSE IF pass.arg = "filled" THEN filled.ret.filled
  ELSE first_pass.ret.harmonized_analyses

CallFill ==
  /\ ~filled.called
  /\ filled' = [called |-> TRUE, ret |-> fill_missing_with_consensus(analyses)]
  /\ UNCHANGED <<analyses, first_pass, second_pass, agreement>>
  /\ UNCHANGED <<majorityVars, parseVars, scoreVars, sessionVars, debateVars>>

\* harmonize_and_check_debates on the raw list, or on the filled one where the
\* filler changed something
CallHarmonize ==
  /\ filled.called
  /\ ~first_pass.called
  /\ \/ first_pass' = [called |-> TRUE, arg |-> "analyses",
                       ret |-> harmonize_and_check_debates(analyses)]
     \/ /\ ~filled.ret.raised
        /\ filled.ret.filled # analyses
        /\ first_pass' = [called |-> TRUE, arg |-> "filled",
                          ret |-> harmonize_and_check_debates(filled.ret.filled)]
  /\ UNCHANGED <<analyses, filled, second_pass, agreement>>
  /\ UNCHANGED <<majorityVars, parseVars, scoreVars, sessionVars, debateVars>>

CallHarmonizeAgain ==
  /\ first_pass.called /\ ~first_pass.ret.raised
  /\ ~second_pass.called
  /\ second_pass' = [called |-> TRUE, arg |-> "harmonized_analyses",
                     ret |-> harmonize_and_check_debates(first_pass.ret.harmonized_analyses)]
  /\ UNCHANGED <<analyses, filled, first_pass, agreement>>
  /\ UNCHANGED <<majorityVars, parseVars, scoreVars, sessionVars, debateVars>>

StagesNext == CallFill \/ CallHarmonize \/ CallHarmonizeAgain

SpecStages == StagesInit /\ [][StagesNext]_vars

(***************************************************************************)
(* calculate_agreement and the harmonizer on one list                      *)
(***************************************************************************)

\* harmonize_and_check_debates on the list as it is
HarmonizeRaw ==
  /\ ~first_pass.called
  /\ first_pass' = [called |-> TRUE, arg |-> "analyses",
                    ret |-> harmonize_and_check_debates(analyses)]
  /\ UNCHANGED <<analyses, filled, second_pass, agreement>>
  /\ UNCHANGED <<majorityVars, parseVars, scoreVars, sessionVars, debateVars>>

CallAgreement ==
  /\ ~agreement.called
  /\ agreement' = [called |-> TRUE, ret |-> calculate_agreement(analyses)]
  /\ UNCHANGED <<analyses, filled, first_pass, second_pass>>
  /\ UNCHANGED <<majorityVars, parseVars, scoreVars, sessionVars, debateVars>>

AgreementNext == HarmonizeRaw \/ CallAgreement

SpecAgreement == StagesInit /\ [][AgreementNext]_vars

(***************************************************************************)
(* _get_majority_rating as a pure function                                 *)
(***************************************************************************)

\* a final rating: a word _extract_final_rating returns, or the text of the
\* participant's position (an analyst's rating text, possibly none)
VoteTexts ==
  { <<"E","x","c","e","l","l","e","n","t">>, <<"G","o","o","d">>, <<"N","e","u","t","r","a","l">>, <<"B","a","d">>, <<"H","o","r","r","i","b","l","e">>,
    <<"g","o","o","d">>, <<"G","O","O","D">>, <<"g","o","o","d"," ","-"," ","s","t","e","a","d","y">>, <<"N","o","t"," ","e","n","o","u","g","h"," ","i","n","f","o","r","m","a","t","i","o","n">>, <<"U","n","k","n","o","w","n">>, <<>> }

\* run_debate is given the list the harmonizer flagged the metric in, so at
\* least two of the three positions hold a rating text: at most one vote is
\* the empty text
MajorityInit ==
  /\ votes \in [1..3 -> VoteTexts]
  /\ Cardinality({i \in 1..3 : votes[i] = <<>>}) <= 1
  /\ majority = NotCalled
  /\ StagesIdle /\ ParseIdle /\ ScoreIdle /\ SessionIdle /\ DebateIdle

CallMajority ==
  /\ ~majority.called
  /\ majority' = [called |-> TRUE, ret |-> _get_majority_rating(votes)]
  /\ UNCHANGED <<votes, stageVars, parseVars, scoreVars, sessionVars, debateVars>>

MajorityNext == CallMajority

SpecMajority == MajorityInit /\ [][MajorityNext]_vars

(***************************************************************************)
(* parse_metric_rating and parse_strength_score as pure functions          *)
(***************************************************************************)

\* how a text given to the parse functions may start, go on and end
TextHeads ==
  { <<>>, <<" ">>, <<"G","o","o","d">>, <<"e","x","c","e","l","l","e","n","t">>, <<"N","E","U","T","R","A","L">>, <<"b","a","d">>, <<"H","o","r","r","i","b","l","e">>, <<"S","t","r","o","n","g">>,
    <<"7","/","8">>, <<"S","c","o","r","e",":">> }

TextMiddles ==
  { <<>>, <<" ">>, <<" ","-"," ","n","o","t"," ","E","N","O","U","G","H"," ","i","n","f","o","r","m","a","t","i","o","n">>, <<" ","4","/","8">>, <<"/","8">> }

TextTails ==
  { <<>>, <<" ">>, <<" ","o","v","e","r","a","l","l">>, <<"N","o","t"," ","E","n","o","u","g","h"," ","I","n","f","o","r","m","a","t","i","o","n">> }

ParseInit ==
  /\ \/ text = None
     \/ \E head \in TextHeads, middle \in TextMiddles, tail \in TextTails :
          text = head \o middle \o tail
  /\ parsed = [rating |-> NotCalled, score |-> NotCalled]
  /\ StagesIdle /\ MajorityIdle /\ ScoreIdle /\ SessionIdle /\ DebateIdle

CallParseMetricRating ==
  /\ ~parsed.rating.called
  /\ parsed' = [parsed EXCEPT !.rating = [called |-> TRUE, ret |-> parse_metric_rating(text)]]
  /\ UNCHANGED <<text, stageVars, majorityVars, scoreVars, sessionVars, debateVars>>

CallParseStrengthScore ==
  /\ ~parsed.score.called
  /\ parsed' = [parsed EXCEPT !.score = [called |-> TRUE, ret |-> parse_strength_score(text)]]
  /\ UNCHANGED <<text, stageVars, majorityVars, scoreVars, sessionVars, debateVars>>

ParseNext == CallParseMetricRating \/ CallParseStrengthScore

SpecParse == ParseInit /\ [][ParseNext]_vars

(***************************************************************************)
(* The report's score and verdict as pure functions                        *)
(***************************************************************************)

\* the final ratings a report may hold for a metric
ReportRatings ==
  << <<"E","x","c","e","l","l","e","n","t">>, <<"G","o","o","d">>, <<"N","e","u","t","r","a","l">>, <<"B","a","d">>, <<"H","o","r","r","i","b","l","e">>, COMPLEX >>

\* the dict rating the first n metrics: ReportRatings[1] up to the metric at
\* cuts[1], ReportRatings[2] up to the one at cuts[2], and so on
RatedInBlocks(n, cuts) ==
  [m \in {ReportMetrics[k] : k \in 1..n} |->
     LET k == CHOOSE k \in 1..n : ReportMetrics[k] = m
     IN  ReportRatings[1 + Cardinality({j \in DOMAIN cuts : cuts[j] < k})]]

\* every number of rated metrics and every number of metrics per rating
ScoreInit ==
  /\ \E n \in 0..Len(ReportMetrics) :
       \E cuts \in [1..(Len(ReportRatings) - 1) -> 0..n] :
         /\ \A j \in 1..(Len(ReportRatings) - 2) : cuts[j] <= cuts[j + 1]
         /\ all_ratings = RatedInBlocks(n, cuts)
  /\ report = [log |-> NotCalled, pdf |-> NotCalled]
  /\ StagesIdle /\ MajorityIdle /\ ParseIdle /\ SessionIdle /\ DebateIdle

\* log_final_report: score and verdict of the overall summary
LogReport ==
  /\ ~report.log.called
  /\ report' = [report EXCEPT !.log =
                  [called |-> TRUE, score |-> _calculate_score(all_ratings),
                   verdict |-> LogVerdict(_calculate_score(all_ratings))]]
  /\ UNCHANGED <<all_ratings, stageVars, majorityVars, parseVars, sessionVars, debateVars>>

\* _prepare_report_data: score and verdict of the PDF report
PdfReport ==
  /\ ~report.pdf.called
  /\ report' = [report EXCEPT !.pdf =
                  [called |-> TRUE, score |-> pdf_calculate_score(all_ratings),
                   verdict |-> _get_verdict(pdf_calculate_score(all_ratings))]]
  /\ UNCHANGED <<all_ratings, stageVars, majorityVars, parseVars, sessionVars, debateVars>>

ScoreNext == LogReport \/ PdfReport

SpecScore == ScoreInit /\ [][ScoreNext]_vars

(***************************************************************************)
(* agents/debate_orchestrator.py: the rounds of a metric's debate          *)
(***************************************************************************)

\* f"[Error: {str(e)}]"
ErrorPlaceholder(e) == <<"[","E","r","r","o","r",":"," ">> \o e \o <<"]">>

\* _invoke_agent on a call whose agent replied with content, or raised with
\* message content: the exception is caught and a placeholder returned
_invoke_agent_Bare(call, raises, content) ==
  [call EXCEPT !.status = IF raises THEN "raised" ELSE "returned",
               !.result = content]

_invoke_agent(call, raises, content) ==
  [call EXCEPT !.status = IF raises THEN "raised" ELSE "returned",
               !.result = IF raises THEN ErrorPlaceholder(content) ELSE content]

\* the label of the round a debate is in: 1, round_num, 'final'
RoundLabel(ph, n) == IF ph = "final" THEN "final" ELSE ToString(n)

\* how much of another participant's latest response a review prompt shows,
\* and how much of each of its own last responses a final prompt shows
LatestArgumentLength == 300
HistoryEntryLength == 200

\* s[:n]
Truncated(s, n) == IF Len(s) <= n THEN s ELSE SubSeq(s, 1, n)

Ellipsis == <<".",".",".">>

\* what a template of config/prompts is filled with; a prompt leaves empty
\* what its template has no place for, and the ticker is the session's
Prompt(template, metric, rating, reason, other_positions, history_summary) ==
  [template |-> template, metric |-> metric, rating |-> rating, reason |-> reason,
   other_positions |-> other_positions, history_summary |-> history_summary]

\* _build_round1_prompt
_build_round1_prompt(metric, position) ==
  Prompt("DEBATE_ROUND1", metric, position.rating, position.reason, <<>>, <<>>)

\* {k: v for k, v in positions.items() if k != name}, in the order of the dict
OtherPositions(pos, name) ==
  LET others == SelectSeq(DEBATE_AGENTS, LAMBDA k : k # name)
  IN  [q \in 1..Len(others) |->
         [name |-> others[q], rating |-> pos[others[q]].rating,
          reason |-> pos[others[q]].reason, history |-> pos[others[q]].history]]

\* _build_review_prompt showing the first argument of the others
_build_review_prompt_FirstArgument(metric, my_position, other_positions) ==
  Prompt("DEBATE_REVIEW", metric, my_position.rating, my_position.reason,
         [q \in 1..Len(other_positions) |->
            [name |-> other_positions[q].name,
             rating |-> other_positions[q].rating,
             reason |-> other_positions[q].reason,
             latest |-> IF other_positions[q].history # <<>>
                        THEN Truncated(other_positions[q].history[1],
                                       LatestArgumentLength) \o Ellipsis
                        ELSE Absent]],
         <<>>)

\* _build_review_prompt: own rating and reason, and for each of the others
\* the rating, the reason and the start of the latest response
_build_review_prompt(metric, my_position, other_positions) ==
  Prompt("DEBATE_REVIEW", metric, my_position.rating, my_position.reason,
         [q \in 1..Len(other_positions) |->
            [name |-> other_positions[q].name,
             rating |-> other_positions[q].rating,
             reason |-> other_positions[q].reason,
             latest |-> IF other_positions[q].history # <<>>
                        THEN Truncated(other_positions[q].history[Len(other_positions[q].history)],
                                       LatestArgumentLength) \o Ellipsis
                        ELSE Absent]],
         <<>>)

\* _build_final_prompt: own rating and the start of the last two responses
_build_final_prompt(metric, position) ==
  LET n == Len(position.history)
      last_two == IF n <= 2 THEN position.history ELSE SubSeq(position.history, n - 1, n)
  IN  Prompt("DEBATE_FINAL", metric, position.rating, <<>>, <<>>,
             [i \in 1..Len(last_two) |->
                Truncated(last_two[i], HistoryEntryLength) \o Ellipsis])

\* the three _invoke_agent tasks of a round, in DEBATE_AGENTS order, each
\* with the prompt built from the positions before any of them runs
RoundTasks(metric, label, pos) ==
  [p \in 1..Len(DEBATE_AGENTS) |->
     [metric |-> metric, round |-> label, llm |-> DEBATE_AGENTS[p],
      prompt |-> IF label = "1"
                 THEN _build_round1_prompt(metric, pos[DEBATE_AGENTS[p]])
                 ELSE IF label = "final"
                 THEN _build_final_prompt(metric, pos[DEBATE_AGENTS[p]])
                 ELSE _build_review_prompt(metric, pos[DEBATE_AGENTS[p]],
                                           OtherPositions(pos, DEBATE_AGENTS[p])),
      status |-> "running", result |-> None]]

\* the calls of a metric's round in the log of calls
CallsOf(log, metric, label) ==
  {c \in DOMAIN log : log[c].metric = metric /\ log[c].round = label}

\* await asyncio.gather(*tasks) resuming on the first finished task
Gathered_Any(log, metric, label) ==
  \E c \in CallsOf(log, metric, label) : log[c].status # "running"

\* await asyncio.gather(*tasks) resumes once every task has finished
Gathered(log, metric, label) ==
  \A c \in CallsOf(log, metric, label) : log[c].status # "running"

\* the responses in the order in which the calls ended, as
\* asyncio.as_completed would hand them over
Results_AsCompleted(log, metric, label) ==
  [p \in 1..Len(DEBATE_AGENTS) |-> log[completed[p]].result]

\* the responses gather returns, in task order
Results(log, metric, label) ==
  [p \in 1..Len(DEBATE_AGENTS) |->
     log[CHOOSE c \in CallsOf(log, metric, label) : log[c].llm = DEBATE_AGENTS[p]].result]

\* the transcript entries appended for a round's results
Entries(metric, label, results) ==
  [p \in 1..Len(DEBATE_AGENTS) |->
     [round |-> label, metric |-> metric, llm |-> DEBATE_AGENTS[p],
      content |-> results[p]]]

\* positions as initialized from the original analyses
InitialPositions(original_analyses, metric) ==
  [name \in SeqToSet(DEBATE_AGENTS) |->
     LET i == CHOOSE i \in 1..Len(DEBATE_AGENTS) : DEBATE_AGENTS[i] = name
     IN  [rating  |-> Get(original_analyses[i], metric, <<"U","n","k","n","o","w","n">>),
          reason  |-> Get(original_analyses[i], ReasonKey(metric), <<"N","o"," ","r","e","a","s","o","n"," ","p","r","o","v","i","d","e","d">>),
          history |-> <<>>]]

\* positions[name]['history'].append(response) for every participant
WithHistory(pos, results) ==
  [name \in DOMAIN pos |->
     LET p == CHOOSE p \in 1..Len(DEBATE_AGENTS) : DEBATE_AGENTS[p] = name
     IN  [pos[name] EXCEPT !.history = Append(@, results[p])]]

\* a change taken from the comparison of the texts as they are
Changes_CaseSensitive(old_rating, response) ==
  LET new_rating == _extract_updated_rating(response)
  IN  new_rating # None /\ new_rating # old_rating

\* a review response changes the participant's rating
Changes(old_rating, response) ==
  LET new_rating == _extract_updated_rating(response)
  IN  new_rating # None /\ Lower(new_rating) # Lower(old_rating)

\* positions after the loop over a review round's results
Reviewed(pos, results) ==
  [name \in DOMAIN pos |->
     LET p == CHOOSE p \in 1..Len(DEBATE_AGENTS) : DEBATE_AGENTS[p] = name
     IN  IF Changes(pos[name].rating, results[p])
         THEN [pos[name] EXCEPT !.rating = _extract_updated_rating(results[p])]
         ELSE pos[name]]

\* the position changes that loop appends, in DEBATE_AGENTS order
ChangesOf(pos, metric, results) ==
  LET RECURSIVE Rest(_)
      Rest(p) ==
        IF p > Len(DEBATE_AGENTS) THEN <<>>
        ELSE IF Changes(pos[DEBATE_AGENTS[p]].rating, results[p])
             THEN << [llm |-> DEBATE_AGENTS[p], metric |-> metric,
                      from |-> pos[DEBATE_AGENTS[p]].rating,
                      to |-> _extract_updated_rating(results[p])] >> \o Rest(p + 1)
             ELSE Rest(p + 1)
  IN  Rest(1)

\* final_ratings without the fallback: a vote only where a rating is extracted
FinalRatings_DropFailed(pos, results) ==
  LET RECURSIVE Rest(_)
      Rest(p) ==
        IF p > Len(DEBATE_AGENTS) THEN <<>>
        ELSE IF _extract_final_rating(results[p]) # None
             THEN <<_extract_final_rating(results[p])>> \o Rest(p + 1)
             ELSE Rest(p + 1)
  IN  Rest(1)

\* final_ratings: the extracted final rating, else the last known rating
FinalRatings(pos, results) ==
  [p \in 1..Len(DEBATE_AGENTS) |->
     IF _extract_final_rating(results[p]) # None
     THEN _extract_final_rating(results[p])
     ELSE pos[DEBATE_AGENTS[p]].rating]

\* all_transcripts.extend(result['transcript']) put in front instead
Extend_InFront(all, more) == more \o all

\* all_transcripts.extend(result['transcript'])
Extend(all, more) == all \o more

\* the replies an agent may give in a round
ResponsesFor(ph) ==
  IF ph = "round1" THEN Round1Responses
  ELSE IF ph = "review" THEN ReviewResponses
  ELSE FinalResponses

(***************************************************************************)
(* agents/gradio_responses.py: what response_quaterly does with the results *)
(***************************************************************************)

\* the loop over the responses leaving at the first exception instead of
\* going on with the next analyst
ValidAnswers_StopAtFailure(resp) ==
  LET RECURSIVE Rest(_)
      Rest(i) ==
        IF i > Len(resp) THEN <<>>
        ELSE IF resp[i].status = "raised" THEN <<>>
        ELSE IF resp[i].data # EmptyDict /\ "financial_strenght" \in DOMAIN resp[i].data
             THEN <<resp[i].data>> \o Rest(i + 1)
             ELSE Rest(i + 1)
  IN  Rest(1)

\* LLM_Answers: the data of the analysts that neither failed nor returned
\* invalid data, in LLM_CONFIGS order
ValidAnswers(resp) ==
  LET RECURSIVE Rest(_)
      Rest(i) ==
        IF i > Len(resp) THEN <<>>
        ELSE IF resp[i].status = "returned"
                /\ resp[i].data # EmptyDict
                /\ "financial_strenght" \in DOMAIN resp[i].data
             THEN <<resp[i].data>> \o Rest(i + 1)
             ELSE Rest(i + 1)
  IN  Rest(1)

\* analysis[metric] = final_rating in every analysis, for every debated metric
\* whose final rating is not COMPLEX
ApplyDebateResults_AlsoComplex(harmonized_analyses, results) ==
  LET RECURSIVE Rest(_, _)
      Rest(acc, k) ==
        IF k > Len(results) THEN acc
        ELSE Rest([i \in 1..Len(acc) |->
                     Put(acc[i], results[k].metric, results[k].final_rating)], k + 1)
  IN  Rest(harmonized_analyses, 1)

ApplyDebateResults(harmonized_analyses, results) ==
  LET RECURSIVE Rest(_, _)
      Rest(acc, k) ==
        IF k > Len(results) THEN acc
        ELSE IF results[k].final_rating # COMPLEX
             THEN Rest([i \in 1..Len(acc) |->
                          Put(acc[i], results[k].metric, results[k].final_rating)], k + 1)
             ELSE Rest(acc, k + 1)
  IN  Rest(harmonized_analyses, 1)

\* the arguments of _save_stock_evals
SaveCall(ticker, answers) ==
  [called |-> TRUE, ticker |-> ticker,
   recommendations_list |-> [i \in 1..Len(answers) |-> answers[i]["financial_strenght"]],
   selected_reason |-> [i \in 1..Len(answers) |-> answers[i]["overall_summary"]]]

\* a call of the logger: the function, the analyst it is about if any, and
\* whether it returned; no function of logs/llm_logger.py catches what
\* open() or write() raise
LogCall(function, name, ok) == [call |-> function, name |-> name, ok |-> ok]

\* the logger calls response_quaterly makes from the gather to the consensus
\* stages: log_llm_timing, then log_llm_conversation for every analyst whose
\* call did not raise, in LLM_CONFIGS order
FirstLogs(resp) ==
  LET RECURSIVE Rest(_)
      Rest(i) ==
        IF i > Len(resp) THEN <<>>
        ELSE IF resp[i].status = "returned"
             THEN <<LogCall("log_llm_conversation", LLM_CONFIGS[i], TRUE)>> \o Rest(i + 1)
             ELSE Rest(i + 1)
  IN  <<LogCall("log_llm_timing", "", TRUE)>> \o Rest(1)

\* the first k calls of a list of logger calls, the k-th failing
FailingAt(logs, k) ==
  [j \in 1..k |-> IF j = k THEN [logs[j] EXCEPT !.ok = FALSE] ELSE logs[j]]

\* a debate decided by the harmonizer's list and the composite scores' spread
DebateNeeded_BySpread(harm, filled_list) ==
  /\ harm.metrics_to_debate # <<>>
  /\ calculate_agreement(filled_list).debate_level # "none"

\* "if metrics_to_debate:" in response_quaterly
DebateNeeded(harm, filled_list) == harm.metrics_to_debate # <<>>

(***************************************************************************)
(* A research session: response_quaterly with run_debate                   *)
(***************************************************************************)

Init ==
  /\ ticker_symbol = <<>>
  /\ pc = "start"
  /\ responses = <<>>
  /\ analyst = 0
  /\ LLM_Answers = <<>>
  /\ filled_analyses = <<>>
  /\ harmonize_result = NotCalled
  /\ saved = NotCalled
  /\ outcome = "running"
  /\ error = ""
  /\ logged = <<>>
  /\ DebateIdle /\ StagesIdle /\ MajorityIdle /\ ParseIdle /\ ScoreIdle

\* the end of response_quaterly (lines 199-212): with answers, call
\* _save_stock_evals, which reads the evaluations file and writes it back
\* with the new row and raises when it cannot, nothing being written then;
\* after the save have the checker agent present the answers, which may
\* raise; without answers say that all calls failed
Conclude(answers) ==
  /\ LLM_Answers' = answers
  /\ IF answers # <<>>
     THEN /\ saved' = SaveCall(ticker_symbol, answers)
          /\ \/ outcome' = "error" /\ error' = "OSError" /\ pc' = "done"
             \/ outcome' = "error" /\ error' = "RuntimeError" /\ pc' = "done"
             \/ outcome' = outcome /\ error' = error /\ pc' = "yield_findings"
     ELSE /\ pc' = "yield_all_failed"
          /\ UNCHANGED <<saved, outcome, error>>

\* an exception nothing catches ends response_quaterly
Abort(answers, exception) ==
  /\ LLM_Answers' = answers
  /\ saved' = saved
  /\ outcome' = "error"
  /\ error' = exception
  /\ pc' = "done"

\* response_quaterly is called with the user's message (lines 40-75): the
\* checker agent answers, or its call raises; the last word of the answer is
\* the ticker, and an answer other than the research sentence for it is
\* yielded as it is; else ticker_admin_tool reads the evaluations file,
\* which raises when it cannot be read, and finds the ticker there or not
CheckTicker ==
  /\ pc = "start"
  /\ \/ /\ Abort(LLM_Answers, "RuntimeError")
        /\ UNCHANGED ticker_symbol
     \/ \E content \in CheckerReplies :
          LET words == Split(content)
          IN  IF words = <<>>
              THEN /\ Abort(LLM_Answers, "IndexError")
                   /\ UNCHANGED ticker_symbol
              ELSE /\ ticker_symbol' = words[Len(words)]
                   /\ IF content # ResearchReply(words[Len(words)])
                      THEN /\ pc' = "yield_reply"
                           /\ UNCHANGED <<LLM_Answers, saved, outcome, error>>
                      ELSE \/ Abort(LLM_Answers, "OSError")
                           \/ \E known \in BOOLEAN :
                                /\ pc' = IF known THEN "yield_known" ELSE "yield_research"
                                /\ UNCHANGED <<LLM_Answers, saved, outcome, error>>
  /\ UNCHANGED <<responses, filled_analyses, harmonize_result, logged, analyst>>
  /\ UNCHANGED <<stageVars, majorityVars, parseVars, scoreVars, debateVars>>

\* the ticker is in the database (lines 61-71): ticker_info_db reads its row
\* from the evaluations file, which raises when it cannot be read, and the
\* checker agent explains the row, or its call raises
ExplainKnown ==
  /\ pc = "yield_known"
  /\ \/ Abort(LLM_Answers, "OSError")
     \/ Abort(LLM_Answers, "RuntimeError")
     \/ /\ pc' = "yield_explained"
        /\ UNCHANGED <<LLM_Answers, saved, outcome, error>>
  /\ UNCHANGED <<ticker_symbol, responses, filled_analyses, harmonize_result, logged,
                 analyst>>
  /\ UNCHANGED <<stageVars, majorityVars, parseVars, scoreVars, debateVars>>

\* lines 75-76: resumed after the research sentence, response_quaterly
\* awaits asyncio.sleep(2) and is suspended in the event loop
AwaitGathering ==
  /\ pc = "yield_research"
  /\ pc' = "sleep_research"
  /\ UNCHANGED <<ticker_symbol, responses, LLM_Answers, filled_analyses,
                 harmonize_result, saved, outcome, error, logged, analyst>>
  /\ UNCHANGED <<stageVars, majorityVars, parseVars, scoreVars, debateVars>>

\* lines 76-77: the sleep is over and the gathering is announced
AnnounceGathering ==
  /\ pc = "sleep_research"
  /\ pc' = "yield_gathering"
  /\ UNCHANGED <<ticker_symbol, responses, LLM_Answers, filled_analyses,
                 harmonize_result, saved, outcome, error, logged, analyst>>
  /\ UNCHANGED <<stageVars, majorityVars, parseVars, scoreVars, debateVars>>

\* lines 77-78: resumed after the announcement, response_quaterly awaits
\* asyncio.sleep(1) and is suspended in the event loop
AwaitDownload ==
  /\ pc = "yield_gathering"
  /\ pc' = "sleep_gathering"
  /\ UNCHANGED <<ticker_symbol, responses, LLM_Answers, filled_analyses,
                 harmonize_result, saved, outcome, error, logged, analyst>>
  /\ UNCHANGED <<stageVars, majorityVars, parseVars, scoreVars, debateVars>>

\* lines 78-85: the sleep is over and download_clean_fillings is called; it
\* raises when the folder, the embedding model or the filings cannot be had,
\* returns None when the ticker has no filings, and the filings are there
\* otherwise
DownloadFilings ==
  /\ pc = "sleep_gathering"
  /\ \/ Abort(LLM_Answers, "OSError")
     \/ \E found \in BOOLEAN :
          /\ pc' = IF found THEN "yield_received" ELSE "yield_no_filings"
          /\ UNCHANGED <<LLM_Answers, saved, outcome, error>>
  /\ UNCHANGED <<ticker_symbol, responses, filled_analyses, harmonize_result, logged,
                 analyst>>
  /\ UNCHANGED <<stageVars, majorityVars, parseVars, scoreVars, debateVars>>

\* lines 86-91: start_new_log creates the session's log file, or raises
StartLog ==
  /\ pc = "yield_received"
  /\ \/ /\ Abort(LLM_Answers, "OSError")
        /\ logged' = Append(logged, LogCall("start_new_log", "", FALSE))
     \/ /\ logged' = Append(logged, LogCall("start_new_log", "", TRUE))
        /\ pc' = "yield_deliberating"
        /\ UNCHANGED <<LLM_Answers, saved, outcome, error>>
  /\ UNCHANGED <<ticker_symbol, responses, filled_analyses, harmonize_result, analyst>>
  /\ UNCHANGED <<stageVars, majorityVars, parseVars, scoreVars, debateVars>>

\* lines 93-111: the three analysts are called together and awaited
CallAnalysts ==
  /\ pc = "yield_deliberating"
  /\ responses' = [i \in 1..Len(LLM_CONFIGS) |-> [status |-> "running", data |-> EmptyDict]]
  /\ pc' = "analysts"
  /\ UNCHANGED <<ticker_symbol, LLM_Answers, filled_analyses, harmonize_result, saved,
                 outcome, error, logged, analyst>>
  /\ UNCHANGED <<stageVars, majorityVars, parseVars, scoreVars, debateVars>>

\* an analyst's call returns: structured data, or a reply without any
AnalystReturns(i) ==
  /\ pc = "analysts"
  /\ responses[i].status = "running"
  /\ \E data \in {AnalystData(ticker_symbol, i), EmptyDict} :
       responses' = [responses EXCEPT ![i] = [status |-> "returned", data |-> data]]
  /\ UNCHANGED <<ticker_symbol, pc, LLM_Answers, filled_analyses, harmonize_result,
                 saved, outcome, error, logged, analyst>>
  /\ UNCHANGED <<stageVars, majorityVars, parseVars, scoreVars, debateVars>>

\* an analyst's call raises: gather(return_exceptions=True) keeps the exception
AnalystRaises(i) ==
  /\ pc = "analysts"
  /\ responses[i].status = "running"
  /\ responses' = [responses EXCEPT ![i] = [status |-> "raised", data |-> EmptyDict]]
  /\ UNCHANGED <<ticker_symbol, pc, LLM_Answers, filled_analyses, harmonize_result,
                 saved, outcome, error, logged, analyst>>
  /\ UNCHANGED <<stageVars, majorityVars, parseVars, scoreVars, debateVars>>

\* _debate_single_metric up to its first await: positions, then the round 1
\* tasks
BeginMetric(idx, metric, original_analyses) ==
  /\ metric_idx' = idx
  /\ positions' = InitialPositions(original_analyses, metric)
  /\ transcript' = <<>>
  /\ changes' = <<>>
  /\ phase' = "round1"
  /\ round_num' = 1
  /\ calls' = calls \o RoundTasks(metric, "1", InitialPositions(original_analyses, metric))

\* the place of the first analyst from the i-th on whose call returned valid
\* data, where the loop over the responses yields; beyond the last if none
NextValid(resp, i) ==
  LET RECURSIVE Rest(_)
      Rest(j) ==
        IF j > Len(resp) THEN j
        ELSE IF resp[j].status = "returned"
                /\ resp[j].data # EmptyDict
                /\ "financial_strenght" \in DOMAIN resp[j].data
             THEN j
             ELSE Rest(j + 1)
  IN  Rest(i)

\* the calls of log_llm_conversation the loop makes from the i-th analyst
\* through the j-th: one for every analyst whose call did not raise
ConversationLogs(resp, i, j) ==
  LET RECURSIVE Rest(_)
      Rest(k) ==
        IF k > j THEN <<>>
        ELSE IF resp[k].status = "returned"
             THEN <<LogCall("log_llm_conversation", LLM_CONFIGS[k], TRUE)>> \o Rest(k + 1)
             ELSE Rest(k + 1)
  IN  Rest(i)

\* past the loop (lines 141-212), log being the logger calls made so far:
\* with two or more answers fill, harmonize and log; yield that a debate is
\* triggered if a metric is disputed, else log the report and go to the end
\* with the harmonized analyses; with fewer answers go to the end with them.
\* The logger calls may raise, which ends response_quaterly there.
AfterLoop(log) ==
  LET answers == LLM_Answers
      fill == fill_missing_with_consensus(answers)
      harm == harmonize_and_check_debates(fill.filled)
      harmonization == LogCall("log_harmonization", "", TRUE)
      final_report == LogCall("log_final_report", "", TRUE)
  IN  IF Len(answers) < 2
      THEN /\ Conclude(answers)
           /\ logged' = log
           /\ UNCHANGED <<filled_analyses, harmonize_result>>
      ELSE IF fill.raised
      THEN /\ Abort(answers, "IndexError")
           /\ logged' = log
           /\ UNCHANGED <<filled_analyses, harmonize_result>>
      ELSE IF harm.raised
      THEN /\ Abort(answers, "IndexError")
           /\ logged' = log
           /\ filled_analyses' = fill.filled
           /\ UNCHANGED harmonize_result
      ELSE /\ filled_analyses' = fill.filled
           /\ harmonize_result' = [called |-> TRUE, ret |-> harm]
           /\ \/ /\ Abort(answers, "OSError")
                 /\ logged' = log \o FailingAt(<<harmonization>>, 1)
              \/ IF DebateNeeded(harm, fill.filled)
                 THEN /\ pc' = "yield_triggered"
                      /\ logged' = Append(log, harmonization)
                      /\ UNCHANGED <<LLM_Answers, saved, outcome, error>>
                 ELSE \/ /\ Abort(answers, "OSError")
                         /\ logged' = log \o FailingAt(<<harmonization, final_report>>, 2)
                      \/ /\ Conclude(harm.harmonized_analyses)
                         /\ logged' = log \o <<harmonization, final_report>>

\* the loop over the responses from the i-th analyst on (lines 121-138), log
\* being the logger calls made so far: a response that is an exception is
\* skipped, the others are logged, which may raise, and the loop yields at
\* the first that holds valid data; past the last it goes on below the loop
Loop(i, log) ==
  LET stop == NextValid(responses, i)
      last == IF stop > Len(responses) THEN Len(responses) ELSE stop
      conversations == ConversationLogs(responses, i, last)
  IN  \/ \E k \in 1..Len(conversations) :
           /\ Abort(LLM_Answers, "OSError")
           /\ logged' = log \o FailingAt(conversations, k)
           /\ analyst' = CHOOSE j \in 1..Len(LLM_CONFIGS) :
                           LLM_CONFIGS[j] = conversations[k].name
           /\ UNCHANGED <<filled_analyses, harmonize_result>>
      \/ IF stop <= Len(responses)
         THEN /\ LLM_Answers' = ValidAnswers(SubSeq(responses, 1, stop))
              /\ logged' = log \o conversations
              /\ analyst' = stop
              /\ pc' = "yield_says"
              /\ UNCHANGED <<saved, outcome, error, filled_analyses, harmonize_result>>
         ELSE /\ analyst' = Len(responses)
              /\ AfterLoop(log \o conversations)

\* the three analyst calls are over (lines 111-136): log the timing, which
\* may raise, and go through the responses up to the first yield
AnalystsGathered ==
  /\ pc = "analysts"
  /\ \A i \in 1..Len(responses) : responses[i].status # "running"
  /\ \/ /\ Abort(LLM_Answers, "OSError")
        /\ logged' = Append(logged, LogCall("log_llm_timing", "", FALSE))
        /\ UNCHANGED <<analyst, filled_analyses, harmonize_result>>
     \/ Loop(1, Append(logged, LogCall("log_llm_timing", "", TRUE)))
  /\ UNCHANGED <<ticker_symbol, responses>>
  /\ UNCHANGED <<stageVars, majorityVars, parseVars, scoreVars, debateVars>>

\* resumed after an analyst's score was yielded (line 136), the loop goes on
\* with the next analyst
NextAnalyst ==
  /\ pc = "yield_says"
  /\ Loop(analyst + 1, logged)
  /\ UNCHANGED <<ticker_symbol, responses>>
  /\ UNCHANGED <<stageVars, majorityVars, parseVars, scoreVars, debateVars>>

\* lines 158-159: the disputed metrics are announced, then the debate
AnnounceDebate ==
  /\ pc = "yield_triggered"
  /\ pc' = "yield_debating"
  /\ UNCHANGED <<ticker_symbol, responses, LLM_Answers, filled_analyses,
                 harmonize_result, saved, outcome, error, logged, analyst>>
  /\ UNCHANGED <<stageVars, majorityVars, parseVars, scoreVars, debateVars>>

\* lines 159-167: run_debate is called with the disputed metrics, the filled
\* analyses and max_rounds=3, and awaited; it starts on the first metric,
\* whose positions take one analysis per participant
CallDebate ==
  /\ pc = "yield_debating"
  /\ max_rounds' = SessionMaxRounds
  /\ IF Len(filled_analyses) < Len(DEBATE_AGENTS)
     THEN /\ Abort(LLM_Answers, "IndexError")
          /\ metric_idx' = 1
          /\ UNCHANGED <<positions, transcript, changes, phase, round_num, calls>>
     ELSE /\ BeginMetric(1, harmonize_result.ret.metrics_to_debate[1], filled_analyses)
          /\ pc' = "debate"
          /\ UNCHANGED <<LLM_Answers, saved, outcome, error>>
  /\ UNCHANGED <<debate_results, all_transcripts, position_changes, final_ratings,
                 completed, deviations>>
  /\ UNCHANGED <<ticker_symbol, responses, filled_analyses, harmonize_result, logged,
                 analyst>>
  /\ UNCHANGED <<stageVars, majorityVars, parseVars, scoreVars>>

\* the metric under debate
Metric == harmonize_result.ret.metrics_to_debate[metric_idx]

\* agent.ainvoke of the call c returns a reply
AgentReplies(c) ==
  /\ pc = "debate"
  /\ calls[c].status = "running"
  /\ \E content \in ResponsesFor(IF calls[c].round = "1" THEN "round1"
                                 ELSE IF calls[c].round = "final" THEN "final"
                                 ELSE "review") :
       /\ content # PlainResponse => deviations < MaxDeviations
       /\ deviations' = IF content # PlainResponse THEN deviations + 1 ELSE deviations
       /\ calls' = [calls EXCEPT ![c] = _invoke_agent(calls[c], FALSE, content)]
  /\ UNCHANGED <<metric_idx, debate_results, all_transcripts, position_changes,
                 positions, transcript, changes, phase, round_num, final_ratings,
                 max_rounds>>
  /\ UNCHANGED <<stageVars, majorityVars, parseVars, scoreVars, sessionVars>>

\* agent.ainvoke of the call c raises
AgentRaises(c) ==
  /\ pc = "debate"
  /\ calls[c].status = "running"
  /\ deviations < MaxDeviations
  /\ deviations' = deviations + 1
  /\ calls' = [calls EXCEPT ![c] = _invoke_agent(calls[c], TRUE, ErrorMessage)]
  /\ UNCHANGED <<metric_idx, debate_results, all_transcripts, position_changes,
                 positions, transcript, changes, phase, round_num, final_ratings,
                 max_rounds>>
  /\ UNCHANGED <<stageVars, majorityVars, parseVars, scoreVars, sessionVars>>

\* a participant's agent replies to the call c
ParticipantReturns(c) == AgentReplies(c) /\ UNCHANGED completed

\* a participant's agent raises in the call c
ParticipantRaises(c) == AgentRaises(c) /\ UNCHANGED completed

\* NextRound with range(2, max_rounds + 1) for the review rounds
NextRound_OneMore(metric, n, pos) ==
  IF n + 1 <= max_rounds
  THEN /\ phase' = "review"
       /\ round_num' = n + 1
       /\ calls' = calls \o RoundTasks(metric, RoundLabel("review", n + 1), pos)
  ELSE /\ phase' = "final"
       /\ round_num' = n
       /\ calls' = calls \o RoundTasks(metric, "final", pos)

\* the tasks of the round after round n: a review round while n + 1 is in
\* range(2, max_rounds), else the final round
NextRound(metric, n, pos) ==
  IF n + 1 < max_rounds
  THEN /\ phase' = "review"
       /\ round_num' = n + 1
       /\ calls' = calls \o RoundTasks(metric, RoundLabel("review", n + 1), pos)
  ELSE /\ phase' = "final"
       /\ round_num' = n
       /\ calls' = calls \o RoundTasks(metric, "final", pos)

\* round 1 is gathered: record the statements, start the next round
Round1Gathered ==
  /\ pc = "debate"
  /\ phase = "round1"
  /\ Gathered(calls, Metric, "1")
  /\ LET results == Results(calls, Metric, "1")
     IN  /\ positions' = WithHistory(positions, results)
         /\ transcript' = transcript \o Entries(Metric, "1", results)
  /\ NextRound(Metric, 1, WithHistory(positions, Results(calls, Metric, "1")))
  /\ UNCHANGED <<metric_idx, debate_results, all_transcripts, position_changes,
                 changes, final_ratings, max_rounds, completed, deviations>>
  /\ UNCHANGED <<stageVars, majorityVars, parseVars, scoreVars, sessionVars>>

\* a review round is gathered: record rating changes and responses, start the
\* next round
ReviewGathered ==
  /\ pc = "debate"
  /\ phase = "review"
  /\ Gathered(calls, Metric, RoundLabel(phase, round_num))
  /\ LET results == Results(calls, Metric, RoundLabel(phase, round_num))
     IN  /\ positions' = WithHistory(Reviewed(positions, results), results)
         /\ changes' = changes \o ChangesOf(positions, Metric, results)
         /\ transcript' = transcript \o Entries(Metric, RoundLabel(phase, round_num), results)
  /\ LET results == Results(calls, Metric, RoundLabel(phase, round_num))
     IN  NextRound(Metric, round_num, WithHistory(Reviewed(positions, results), results))
  /\ UNCHANGED <<metric_idx, debate_results, all_transcripts, position_changes,
                 final_ratings, max_rounds, completed, deviations>>
  /\ UNCHANGED <<stageVars, majorityVars, parseVars, scoreVars, sessionVars>>

\* the final round is gathered: take the votes and their majority, hand the
\* metric's result to run_debate, which debates the next metric; after the
\* last one run_debate returns and response_quaterly applies the results,
\* logs the transcript, which may raise, and yields the debate's summary
FinalGathered ==
  /\ pc = "debate"
  /\ phase = "final"
  /\ Gathered(calls, Metric, "final")
  /\ LET results   == Results(calls, Metric, "final")
         ratings   == FinalRatings(positions, results)
         consensus == _get_majority_rating(ratings)
         finished  == transcript \o Entries(Metric, "final", results)
         outcomes  == Append(debate_results, [metric |-> Metric, final_rating |-> consensus])
         metrics   == harmonize_result.ret.metrics_to_debate
     IN  /\ final_ratings' = ratings
         /\ debate_results' = outcomes
         /\ all_transcripts' = Extend(all_transcripts, finished)
         /\ position_changes' = position_changes \o changes
         /\ IF metric_idx < Len(metrics)
            THEN /\ BeginMetric(metric_idx + 1, metrics[metric_idx + 1], filled_analyses)
                 /\ UNCHANGED sessionVars
            ELSE LET debated == ApplyDebateResults(harmonize_result.ret.harmonized_analyses,
                                                   outcomes)
                     transcript_log == LogCall("log_debate_transcript", "", TRUE)
                 IN  /\ harmonize_result' =
                          [harmonize_result EXCEPT !.ret.harmonized_analyses = debated]
                     /\ \/ /\ deviations < MaxDeviations
                           /\ Abort(LLM_Answers, "OSError")
                           /\ logged' = logged \o FailingAt(<<transcript_log>>, 1)
                        \/ /\ pc' = "yield_concluded"
                           /\ logged' = Append(logged, transcript_log)
                           /\ UNCHANGED <<LLM_Answers, saved, outcome, error>>
                     /\ transcript' = finished
                     /\ phase' = "returned"
                     /\ UNCHANGED <<metric_idx, positions, changes, round_num, calls,
                                    ticker_symbol, responses, filled_analyses, analyst>>
  /\ UNCHANGED <<deviations, max_rounds, completed>>
  /\ UNCHANGED <<stageVars, majorityVars, parseVars, scoreVars>>

\* the last metric's debate is reported (lines 188-212): log the report,
\* which may raise, and go to the end with the debated analyses
ReportDebate ==
  /\ pc = "yield_concluded"
  /\ LET final_report == LogCall("log_final_report", "", TRUE)
     IN  \/ /\ deviations < MaxDeviations
            /\ Abort(LLM_Answers, "OSError")
            /\ logged' = logged \o FailingAt(<<final_report>>, 1)
         \/ /\ Conclude(harmonize_result.ret.harmonized_analyses)
            /\ logged' = Append(logged, final_report)
  /\ UNCHANGED <<ticker_symbol, responses, filled_analyses, harmonize_result, analyst>>
  /\ UNCHANGED <<stageVars, majorityVars, parseVars, scoreVars, debateVars>>

\* the yields after which response_quaterly returns
LastYields ==
  {"yield_reply", "yield_explained", "yield_no_filings", "yield_findings",
   "yield_all_failed"}

\* the awaits of asyncio.sleep at which response_quaterly is suspended
Sleeps == {"sleep_research", "sleep_gathering"}

\* every yield of response_quaterly
Yields ==
  LastYields \cup {"yield_known", "yield_research", "yield_gathering", "yield_received",
                   "yield_deliberating", "yield_says", "yield_triggered",
                   "yield_debating", "yield_concluded"}

\* resumed after its last message, response_quaterly returns (lines 55, 72,
\* 83, 209, 213)
Returned ==
  /\ pc \in LastYields
  /\ pc' = "done"
  /\ outcome' = IF pc = "yield_reply" THEN "answered"
                ELSE IF pc = "yield_explained" THEN "explained"
                ELSE IF pc = "yield_no_filings" THEN "no_filings"
                ELSE IF pc = "yield_findings" THEN "saved"
                ELSE "all_failed"
  /\ UNCHANGED <<ticker_symbol, responses, LLM_Answers, filled_analyses,
                 harmonize_result, saved, error, logged, analyst>>
  /\ UNCHANGED <<stageVars, majorityVars, parseVars, scoreVars, debateVars>>

\* the consumer closes the generator at the yield it is suspended at, as on
\* a client's disconnect: GeneratorExit is raised there, response_quaterly
\* has no except or finally, and nothing more of it runs
aclose ==
  /\ pc \in Yields
  /\ pc' = "done"
  /\ UNCHANGED <<ticker_symbol, responses, LLM_Answers, filled_analyses,
                 harmonize_result, saved, outcome, error, logged, analyst>>
  /\ UNCHANGED <<stageVars, majorityVars, parseVars, scoreVars, debateVars>>

Next ==
  \/ CheckTicker
  \/ ExplainKnown
  \/ AwaitGathering
  \/ AnnounceGathering
  \/ AwaitDownload
  \/ DownloadFilings
  \/ StartLog
  \/ CallAnalysts
  \/ \E i \in 1..Len(LLM_CONFIGS) : AnalystReturns(i)
  \/ \E i \in 1..Len(LLM_CONFIGS) : AnalystRaises(i)
  \/ AnalystsGathered
  \/ NextAnalyst
  \/ AnnounceDebate
  \/ CallDebate
  \/ \E c \in DOMAIN calls : ParticipantReturns(c)
  \/ \E c \in DOMAIN calls : ParticipantRaises(c)
  \/ Round1Gathered
  \/ ReviewGathered
  \/ FinalGathered
  \/ ReportDebate
  \/ Returned
  \/ aclose

Spec == Init /\ [][Next]_vars

(***************************************************************************)
(* run_debate for any number of rounds                                     *)
(***************************************************************************)
\* the highest number of rounds run_debate is called with
MaxRoundCount == 4

\* the tickers whose three analyses run_debate is called for
DebateTickers == {"AAA"}

\* run_debate(ticker, metrics_to_debate, filled_analyses, max_rounds) is
\* called, as response_quaterly calls it after three analysts succeeded, for
\* one of the tickers with one of the numbers of rounds, and is at the first
\* await of its first metric
DebateCalled(tickers, rounds) ==
  /\ ticker_symbol \in {Symbol[ticker] : ticker \in tickers}
  /\ max_rounds \in rounds
  /\ responses = [i \in 1..Len(LLM_CONFIGS) |->
                    [status |-> "returned", data |-> AnalystData(ticker_symbol, i)]]
  /\ analyst = Len(LLM_CONFIGS)
  /\ LLM_Answers = ValidAnswers(responses)
  /\ filled_analyses = fill_missing_with_consensus(LLM_Answers).filled
  /\ harmonize_result = [called |-> TRUE, ret |-> harmonize_and_check_debates(filled_analyses)]
  /\ logged = <<LogCall("start_new_log", "", TRUE)>> \o FirstLogs(responses)
                \o <<LogCall("log_harmonization", "", TRUE)>>
  /\ saved = NotCalled /\ outcome = "running" /\ error = "" /\ pc = "debate"
  /\ metric_idx = 1
  /\ positions = InitialPositions(filled_analyses, harmonize_result.ret.metrics_to_debate[1])
  /\ transcript = <<>> /\ changes = <<>> /\ phase = "round1" /\ round_num = 1
  /\ calls = RoundTasks(harmonize_result.ret.metrics_to_debate[1], "1", positions)
  /\ debate_results = <<>> /\ all_transcripts = <<>> /\ position_changes = <<>>
  /\ final_ratings = <<>> /\ completed = <<>> /\ deviations = 0
  /\ StagesIdle /\ MajorityIdle /\ ParseIdle /\ ScoreIdle

\* run_debate called with max_rounds from 2 up
DebateInit == DebateCalled(DebateTickers, 2..MaxRoundCount)

DebateNext ==
  \/ \E c \in DOMAIN calls : ParticipantReturns(c)
  \/ \E c \in DOMAIN calls : ParticipantRaises(c)
  \/ Round1Gathered
  \/ ReviewGathered
  \/ FinalGathered

SpecDebate == DebateInit /\ [][DebateNext]_vars

(***************************************************************************)
(* run_debate with the order in which the calls of a round end noted       *)
(***************************************************************************)

\* the calls of c's round that are over once c is, in the order they ended
EndedWith(c) ==
  IF completed # <<>>
     /\ calls[completed[1]].metric = calls[c].metric
     /\ calls[completed[1]].round = calls[c].round
  THEN Append(completed, c)
  ELSE <<c>>

\* a participant's agent replies to the call c, after those of completed
ReturnsInTurn(c) == AgentReplies(c) /\ completed' = EndedWith(c)

\* a participant's agent raises in the call c, after those of completed
RaisesInTurn(c) == AgentRaises(c) /\ completed' = EndedWith(c)

\* run_debate as response_quaterly calls it
OrderInit == DebateCalled(DebateTickers, {SessionMaxRounds})

OrderNext ==
  \/ \E c \in DOMAIN calls : ReturnsInTurn(c)
  \/ \E c \in DOMAIN calls : RaisesInTurn(c)
  \/ Round1Gathered
  \/ ReviewGathered
  \/ FinalGathered

SpecOrder == OrderInit /\ [][OrderNext]_vars

(***************************************************************************)
(* The session where every call ends and the event loop goes on            *)
(***************************************************************************)

\* every analyst call that is running ends, by a reply or by an exception
AnalystEnds ==
  \E i \in 1..Len(LLM_CONFIGS) : AnalystReturns(i) \/ AnalystRaises(i)

\* the calls of the analysts are all over: the gather that response_quaterly
\* awaits can return
AnalystsOver ==
  /\ pc = "analysts"
  /\ \A i \in 1..Len(responses) : responses[i].status # "running"

\* the step that resumes response_quaterly after that gather: taken with a
\* change of pc, it is the step of AnalystsGathered
SessionResumed == AnalystsOver /\ pc' \in Yields \cup {"done"}

\* the step that resumes response_quaterly once the asyncio.sleep it awaits
\* is over, which the event loop does when the time has passed: taken with a
\* change of pc, it is the step of AnnounceGathering or of DownloadFilings
Slept == pc \in Sleeps /\ pc' \in Yields \cup {"done"}

\* the step of the consumer of response_quaterly, who starts it and, at every
\* yield, asks for the next message or closes it: taken with a change of
\* where response_quaterly stands, it is the step of one of the actions that
\* leave a yield
consumerVars == <<pc, analyst>>

Consumed ==
  /\ pc \in Yields \cup {"start"}
  /\ pc' \in Yields \cup Sleeps \cup {"analysts", "debate", "done"}
  /\ analyst' \in 0..Len(LLM_CONFIGS)

\* every participant call that is running ends, by a reply or by an exception
CallEnds == \E c \in DOMAIN calls : ParticipantReturns(c) \/ ParticipantRaises(c)

\* the calls of the round under way are all over: the gather that
\* _debate_single_metric awaits can return
RoundOver ==
  /\ pc = "debate"
  /\ phase \in {"round1", "review", "final"}
  /\ Gathered(calls, Metric, RoundLabel(phase, round_num))

\* the step that resumes the coroutine awaiting the gather: the calls of a
\* round run as tasks of the one event loop, which resumes the awaiting
\* coroutine once the last of them is done. Taken with a change of the
\* round, it is the step of Round1Gathered, ReviewGathered or FinalGathered,
\* the only ones that move the debate to another round, another metric or
\* its return
roundVars == <<phase, round_num>>

Resumed ==
  /\ RoundOver
  /\ phase' \in {"round1", "review", "final", "returned"}
  /\ round_num' \in 1..max_rounds

SpecLive ==
  /\ Init /\ [][Next]_vars
  /\ WF_consumerVars(Consumed) /\ WF_pc(Slept)
  /\ WF_vars(AnalystEnds) /\ WF_pc(SessionResumed)
  /\ WF_vars(CallEnds) /\ WF_roundVars(Resumed)

(***************************************************************************)
(* Vocabulary of the properties                                            *)
(***************************************************************************)

Neutral == <<"N","e","u","t","r","a","l">>

\* the log entry a returned harmonization dict holds for a metric
EntryOf(ret, metric) ==
  ret.harmonization_log[CHOOSE j \in 1..Len(ret.harmonization_log) :
                           ret.harmonization_log[j].metric = metric]

MetricSet == SeqToSet(METRICS)

\* the value d holds under key, Absent when it holds none
Field(d, key) == Get(d, key, Absent)

\* C1.  Whenever _get_majority_rating has returned for three final ratings:
\* if some rating occurs at least twice, compared case-insensitively, the result
\* is that rating capitalized; and the result is COMPLEX exactly when the three
\* ratings differ pairwise.
C1_MajorityOrComplex ==
  majority.called =>
    LET lowered == [i \in 1..3 |-> Lower(votes[i])]
        allDiffer == Cardinality(SeqToSet(lowered)) = 3
    IN  /\ \A i, j \in 1..3 :
             (i < j /\ lowered[i] = lowered[j]) => majority.ret = Capitalize(lowered[i])
        /\ (majority.ret = COMPLEX) <=> allDiffer

\* C1 witness: the majority of a list whose two agreeing ratings differ in
\* case has been returned, capitalized.
C1_Witness ==
  /\ majority.called
  /\ votes[1] = <<"G","O","O","D">> /\ votes[2] = <<"B","a","d">> /\ votes[3] = <<"g","o","o","d">>
  /\ majority.ret = <<"G","o","o","d">>

\* C2 as stated.  In every returned harmonization of three analysts, a metric
\* that all three rate and at least one rates Neutral has action debate and is
\* in metrics_to_debate.
C2_NeutralAlwaysDebated ==
  (first_pass.called /\ ~first_pass.ret.raised) =>
    \A m \in MetricSet :
      LET ratings == CollectRatings(ArgOf(first_pass), m)
      IN  (/\ Len(ratings) = 3
           /\ \A i \in 1..3 : ratings[i] # None
           /\ \E i \in 1..3 : ratings[i] = Neutral)
          => /\ EntryOf(first_pass.ret, m).action = "debate"
             /\ m \in SeqToSet(first_pass.ret.metrics_to_debate)

\* C2 (amended).  In every returned harmonization, a metric with at least two
\* non-missing ratings that are not all identical case-insensitively, one of
\* them Neutral, has action debate with reason neutral_present and is in
\* metrics_to_debate, whether or not the other ratings agree with each other;
\* a metric with at least two non-missing ratings, all of them Neutral, has
\* action already_aligned with result Neutral and is not in metrics_to_debate.
C2_NeutralAmongDifferingDebated ==
  (first_pass.called /\ ~first_pass.ret.raised) =>
    \A m \in MetricSet :
      LET valid == SelectNotNone(CollectRatings(ArgOf(first_pass), m))
      IN  /\ (/\ Len(valid) >= 2
               /\ Cardinality({Lower(valid[i]) : i \in 1..Len(valid)}) > 1
               /\ \E i \in 1..Len(valid) : valid[i] = Neutral)
              => /\ EntryOf(first_pass.ret, m).action = "debate"
                 /\ EntryOf(first_pass.ret, m).reason = "neutral_present"
                 /\ m \in SeqToSet(first_pass.ret.metrics_to_debate)
          /\ (/\ Len(valid) >= 2
               /\ \A i \in 1..Len(valid) : valid[i] = Neutral)
              => /\ EntryOf(first_pass.ret, m).action = "already_aligned"
                 /\ EntryOf(first_pass.ret, m).result = Neutral
                 /\ m \notin SeqToSet(first_pass.ret.metrics_to_debate)

\* C2 witness: a harmonization returned in which two analysts agree on a
\* non-Neutral rating, the third says Neutral, and the metric is up for debate.
C2_Witness ==
  /\ first_pass.called /\ ~first_pass.ret.raised
  /\ \E m \in MetricSet :
       LET ratings == CollectRatings(ArgOf(first_pass), m)
       IN  /\ Len(ratings) = 3
           /\ \E i, j, k \in 1..3 :
                /\ i # j /\ j # k /\ i # k
                /\ ratings[i] = Neutral
                /\ ratings[j] = ratings[k] /\ ratings[j] \notin {Neutral, None}
           /\ m \in SeqToSet(first_pass.ret.metrics_to_debate)

\* the metrics a returned harmonization records with the given action
MetricsWithAction(ret, action) ==
  {m \in MetricSet : EntryOf(ret, m).action = action}

\* C5.  In every returned harmonization of three analysts, a metric that all
\* three rate, without Neutral and without a positive/negative conflict, and
\* on which exactly two ratings are equal, is recorded as harmonized with the
\* repeated rating as result, and every analyst's rating becomes that value.
C5_MajorityOfThree ==
  (first_pass.called /\ ~first_pass.ret.raised) =>
    \A m \in MetricSet :
      LET ratings == CollectRatings(ArgOf(first_pass), m)
          tiers   == {_get_tier(ratings[i]) : i \in 1..Len(ratings)}
      IN  (/\ Len(ratings) = 3
           /\ \A i \in 1..3 : ratings[i] # None
           /\ "neutral" \notin tiers
           /\ ~("positive" \in tiers /\ "negative" \in tiers)
           /\ Cardinality(SeqToSet(ratings)) = 2)
          => LET repeated == CHOOSE r \in SeqToSet(ratings) : CountOf(ratings, r) = 2
             IN  /\ EntryOf(first_pass.ret, m).action = "harmonized"
                 /\ EntryOf(first_pass.ret, m).result = repeated
                 /\ \A i \in 1..3 :
                      Field(first_pass.ret.harmonized_analyses[i], m) = repeated

\* C5 witness: a harmonization returned in which the first analyst is outvoted
\* by the two others inside one tier.
C5_Witness ==
  /\ first_pass.called /\ ~first_pass.ret.raised
  /\ \E m \in MetricSet :
       LET ratings == CollectRatings(ArgOf(first_pass), m)
       IN  /\ Len(ratings) = 3
           /\ None \notin SeqToSet(ratings)
           /\ ratings[2] = ratings[3] /\ ratings[1] # ratings[2]
           /\ {_get_tier(ratings[i]) : i \in 1..3} = {"negative"}
           /\ EntryOf(first_pass.ret, m).action = "harmonized"
           /\ Field(first_pass.ret.harmonized_analyses[1], m) = ratings[2]

\* C6.  The harmonizer applied to the harmonized_analyses it returned: every
\* metric the first run harmonized is already_aligned with the same result,
\* nothing is harmonized, the same metrics are flagged for debate, and the
\* returned analyses equal the second run's argument.
C6_SecondRunAligned ==
  second_pass.called =>
    /\ ~second_pass.ret.raised
    /\ \A m \in MetricsWithAction(first_pass.ret, "harmonized") :
         /\ EntryOf(second_pass.ret, m).action = "already_aligned"
         /\ EntryOf(second_pass.ret, m).result = EntryOf(first_pass.ret, m).result
    /\ MetricsWithAction(second_pass.ret, "harmonized") = {}
    /\ SeqToSet(second_pass.ret.metrics_to_debate) =
         SeqToSet(first_pass.ret.metrics_to_debate)
    /\ second_pass.ret.harmonized_analyses = first_pass.ret.harmonized_analyses

\* C6 witness: a second run after a first one that harmonized one metric and
\* flagged another for debate.
C6_Witness ==
  /\ second_pass.called
  /\ MetricsWithAction(first_pass.ret, "harmonized") # {}
  /\ first_pass.ret.metrics_to_debate # <<>>
  /\ first_pass.ret.harmonized_analyses # ArgOf(first_pass)

\* C7.  In every list fill_missing_with_consensus returns, a metric that two
\* or more analysts are missing, or whose non-missing first tokens are not all
\* equal after capitalization, has for every analyst the rating and the
\* rationale of the argument.
C7_FillLeavesAmbiguous ==
  (filled.called /\ ~filled.ret.raised) =>
    /\ Len(filled.ret.filled) = Len(analyses)
    /\ \A m \in MetricSet :
         LET ratings == CollectRatings(analyses, m)
         IN  (\/ Len(MissingIndices(ratings)) >= 2
              \/ Cardinality(SeqToSet(SelectNotNone(ratings))) >= 2)
             => \A i \in 1..Len(analyses) :
                  /\ Field(filled.ret.filled[i], m) = Field(analyses[i], m)
                  /\ Field(filled.ret.filled[i], ReasonKey(m)) =
                       Field(analyses[i], ReasonKey(m))

\* C7 witness: a fill returned for three analysts, one of them missing a
\* metric (with a text, not an empty rating) on which the two others disagree.
C7_Witness ==
  /\ filled.called /\ ~filled.ret.raised
  /\ Len(analyses) = 3
  /\ \E m \in MetricSet :
       LET ratings == CollectRatings(analyses, m)
       IN  /\ Len(MissingIndices(ratings)) = 1
           /\ Cardinality(SeqToSet(SelectNotNone(ratings))) = 2
           /\ Get(analyses[MissingIndices(ratings)[1]], m, <<>>) # <<>>
           /\ filled.ret.filled[MissingIndices(ratings)[1]] =
                analyses[MissingIndices(ratings)[1]]

\* what a returned harmonization may differ in from its argument: rating and
\* rationale of an analyst that rates a metric recorded as harmonized
HarmonizeFrame(arg, ret) ==
  /\ Len(ret.harmonized_analyses) = Len(arg)
  /\ \A i \in 1..Len(arg) :
       \A key \in (DOMAIN arg[i]) \cup (DOMAIN ret.harmonized_analyses[i]) :
         Field(ret.harmonized_analyses[i], key) # Field(arg[i], key)
         => \E m \in MetricsWithAction(ret, "harmonized") :
              /\ key \in {m, ReasonKey(m)}
              /\ ~IsMissingText(Get(arg[i], m, <<>>))

\* C8.  Every call of the harmonizer that returns leaves the list it was given
\* as it was, and returns a list that differs from it only in the rating and
\* rationale of analysts that rate a metric recorded as harmonized: a missing
\* rating, and every rating of a skipped, aligned or debated metric, is
\* returned as given.
C8_HarmonizeFrame ==
  [][ (~first_pass.called /\ first_pass'.called /\ ~first_pass'.ret.raised)
      => /\ analyses' = analyses
         /\ filled' = filled
         /\ HarmonizeFrame(IF first_pass'.arg = "analyses" THEN analyses
                           ELSE filled.ret.filled, first_pass'.ret) ]_vars

\* C8 witness: a harmonization returned that rewrote two analysts' ratings on
\* a metric the third analyst is missing.
C8_Witness ==
  /\ first_pass.called /\ ~first_pass.ret.raised
  /\ \E m \in MetricsWithAction(first_pass.ret, "harmonized") :
       \E i \in 1..Len(ArgOf(first_pass)) :
         /\ IsMissingText(Get(ArgOf(first_pass)[i], m, <<>>))
         /\ Get(ArgOf(first_pass)[i], m, <<>>) # <<>>
         /\ first_pass.ret.harmonized_analyses[i] = ArgOf(first_pass)[i]
         /\ first_pass.ret.harmonized_analyses # ArgOf(first_pass)

\* the analyst that alone misses the metric while the others, at least one,
\* agree on a first token; 0 when there is no such analyst
FilledAnalyst(list, metric) ==
  LET ratings == CollectRatings(list, metric)
  IN  IF /\ Len(MissingIndices(ratings)) = 1
         /\ Cardinality(SeqToSet(SelectNotNone(ratings))) = 1
      THEN MissingIndices(ratings)[1]
      ELSE 0

\* the effect of the filler: same analysts; the analyst that alone misses a
\* metric the others agree on gets their first token as rating and the marker
\* naming it as reason; every other field, present or absent, is the input's
FillEffect(list, ret) ==
  /\ Len(ret) = Len(list)
  /\ \A i \in 1..Len(list) :
       /\ \A m \in MetricSet :
            IF FilledAnalyst(list, m) = i
            THEN LET others == SelectNotNone(CollectRatings(list, m))
                 IN  /\ Field(ret[i], m) = others[1]
                     /\ Field(ret[i], ReasonKey(m)) = FilledByConsensus(others[1])
            ELSE /\ Field(ret[i], m) = Field(list[i], m)
                 /\ Field(ret[i], ReasonKey(m)) = Field(list[i], ReasonKey(m))
       /\ \A key \in {"financial_strenght", "overall_summary"} :
            Field(ret[i], key) = Field(list[i], key)
       /\ DOMAIN ret[i] \subseteq
            DOMAIN list[i] \cup MetricSet \cup {ReasonKey(m) : m \in MetricSet}

\* C19.  Every call of fill_missing_with_consensus that returns leaves the
\* list it was given as it was and returns a list that differs from it exactly
\* there: where one analyst alone misses a metric and the others agree on a
\* first token after capitalization, that analyst's rating is the agreed value
\* and its reason the 'Filled by consensus (value)' marker.
C19_FillEffect ==
  [][(~filled.called /\ filled'.called /\ ~filled'.ret.raised) =>
       (/\ analyses' = analyses
        /\ FillEffect(analyses, filled'.ret.filled))]_vars

\* C19 witness: a fill returned for three analysts in which the one that
\* answered 'Not Enough Information' got the value the two others agree on,
\* one of them in another letter case and with more words.
C19_Witness ==
  /\ filled.called /\ ~filled.ret.raised
  /\ Len(analyses) = 3
  /\ \E m \in MetricSet : \E i \in 1..3 :
       /\ FilledAnalyst(analyses, m) = i
       /\ Contains(Lower(Field(analyses[i], m)), NotEnoughInformation)
       /\ \E j \in 1..3 : Field(analyses[j], m) = <<"G","O","O","D"," ","-"," ","s","o","l","i","d">>
       /\ Field(filled.ret.filled[i], m) = <<"G","o","o","d">>
       /\ Field(filled.ret.filled[i], ReasonKey(m)) = <<"F","i","l","l","e","d"," ","b","y"," ","c","o","n","s","e","n","s","u","s"," ","(","G","o","o","d",")">>

\* the action the priority rules give a metric, with its reason
ExpectedAction(list, metric) ==
  LET valid   == SelectNotNone(CollectRatings(list, metric))
      lowered == {Lower(valid[i]) : i \in 1..Len(valid)}
  IN  IF Len(valid) < 2 THEN <<"skipped", "insufficient_data">>
      ELSE IF Cardinality(lowered) = 1 THEN <<"already_aligned", "">>
      ELSE IF <<"n","e","u","t","r","a","l">> \in lowered THEN <<"debate", "neutral_present">>
      ELSE IF /\ lowered \cap {<<"e","x","c","e","l","l","e","n","t">>, <<"g","o","o","d">>} # {}
              /\ lowered \cap {<<"b","a","d">>, <<"h","o","r","r","i","b","l","e">>} # {}
           THEN <<"debate", "cross_tier_conflict">>
      ELSE <<"harmonized", "">>

\* C20.  In every returned harmonization the log has one entry per metric in
\* the order of METRICS, each with the action (and for skipped and debate the
\* reason) the priority skipped, already_aligned, neutral_present,
\* cross_tier_conflict, harmonized gives, and metrics_to_debate lists the
\* metrics with action debate in that order.
C20_OneEntryPerMetric ==
  (first_pass.called /\ ~first_pass.ret.raised) =>
    LET log == first_pass.ret.harmonization_log
    IN  /\ Len(log) = Len(METRICS)
        /\ \A k \in 1..Len(METRICS) :
             LET expected == ExpectedAction(ArgOf(first_pass), METRICS[k])
             IN  /\ log[k].metric = METRICS[k]
                 /\ log[k].action = expected[1]
                 /\ expected[2] # "" => log[k].reason = expected[2]
        /\ first_pass.ret.metrics_to_debate =
             SelectSeq(METRICS, LAMBDA m :
               ExpectedAction(ArgOf(first_pass), m)[1] = "debate")

\* C20 witness: a harmonization returned whose log has a harmonized metric
\* before a debated one, the latter for a cross-tier conflict among three
\* ratings of which one is outside the five words.
C20_Witness ==
  /\ first_pass.called /\ ~first_pass.ret.raised
  /\ Len(ArgOf(first_pass)) = 3
  /\ first_pass.ret.harmonization_log[1].action = "harmonized"
  /\ first_pass.ret.harmonization_log[2].action = "debate"
  /\ first_pass.ret.harmonization_log[2].reason = "cross_tier_conflict"
  /\ \E i \in 1..3 : Field(ArgOf(first_pass)[i], METRICS[2]) = <<"S","t","r","o","n","g">>
  /\ first_pass.ret.metrics_to_debate = <<METRICS[2]>>

(***************************************************************************)
(* Properties of a research session                                        *)
(***************************************************************************)

\* the labels of a debate's rounds in order: 1, range(2, max_rounds), 'final'
RoundLabels ==
  <<"1">> \o [n \in 1..(max_rounds - 2) |-> ToString(n + 1)] \o <<"final">>

\* the place of x in seq
IndexOf(seq, x) == CHOOSE k \in DOMAIN seq : seq[k] = x

\* every transcript entry recorded so far: run_debate's combined transcript,
\* then that of the metric under debate
TranscriptSoFar ==
  IF pc = "debate" THEN all_transcripts \o transcript ELSE all_transcripts

\* the entries recorded so far for a metric's round
Recorded(metric, label) ==
  SelectSeq(TranscriptSoFar, LAMBDA e : e.metric = metric /\ e.round = label)

\* the entries recorded for a metric's round are those of the three
\* participants, in order, each with the result of the participant's call
RecordedInFull(metric, label) ==
  \A entries \in {Recorded(metric, label)} :
    /\ Len(entries) = Len(DEBATE_AGENTS)
    /\ \A results \in {Results(calls, metric, label)} :
         \A p \in 1..Len(DEBATE_AGENTS) :
           /\ entries[p].llm = DEBATE_AGENTS[p]
           /\ entries[p].content = results[p]

\* the calls issued so far for a metric, whatever the round
CallsFor(metric) == {c \in DOMAIN calls : calls[c].metric = metric}

\* a final rating has been determined for the metric
Determined(metric) ==
  \E k \in DOMAIN debate_results : debate_results[k].metric = metric

\* a call of the logger raised
LogFailed == \E k \in DOMAIN logged : ~logged[k].ok

\* one of the five logging and reporting calls raised
ReportingFailed ==
  \E k \in DOMAIN logged : ~logged[k].ok /\ logged[k].call # "start_new_log"

\* a call of the checker agent raised
CheckerFailed == error = "RuntimeError"

\* the call of _save_stock_evals raised: the evaluations file could not be
\* read or written and no row was saved
SaveFailed == saved.called /\ error = "OSError"

\* the evaluation is saved: _save_stock_evals was called and returned
Saved == saved.called /\ ~SaveFailed

\* the consumer closed response_quaterly before it ended
ClosedEarly == pc = "done" /\ outcome = "running"

\* response_quaterly got to its three analyst calls and ended of itself
\* after them
EndedAfterAnalysts == pc = "done" /\ outcome # "running" /\ responses # <<>>

\* C3 as stated, for the sessions that the consumer lets run to their end
\* and in which no call of the logger or of the checker agent raises and the
\* evaluations file can be read and written.  Such a session with at least
\* one valid analysis has saved the evaluation, with harmonization run when
\* two or more analyses are valid; one without any has the all-failed
\* outcome and ran no harmonization, no debate and no save.
C3_SessionSavesOrReportsFailure ==
  (EndedAfterAnalysts /\ ~LogFailed /\ ~CheckerFailed /\ ~SaveFailed) =>
    IF ValidAnswers(responses) # <<>>
    THEN /\ outcome = "saved"
         /\ Saved
         /\ Len(ValidAnswers(responses)) >= 2 => harmonize_result.called
    ELSE /\ outcome = "all_failed"
         /\ ~saved.called /\ ~harmonize_result.called /\ calls = <<>>

\* C16 as stated.  A session in which a call of the logger raised is not
\* aborted: once over, it has the outcome its analyses give, saved when there
\* is a valid analysis and all-failed when there is none.
C16_LogFailureNeverAborts ==
  (EndedAfterAnalysts /\ ReportingFailed) =>
    /\ outcome # "error"
    /\ outcome = IF ValidAnswers(responses) # <<>> THEN "saved" ELSE "all_failed"

\* the session got past its call of log_harmonization
HarmonizationLogged ==
  \E k \in DOMAIN logged : logged[k].call = "log_harmonization" /\ logged[k].ok

\* run_debate has been invoked
DebateInvoked == metric_idx >= 1

\* C11.  run_debate has been invoked only in sessions that harmonized two or
\* more analyses, got past the harmonization log and have a non-empty
\* metrics_to_debate, and in every such session that is past the two yields
\* that announce the debate, unless the consumer closed it there, whatever
\* the debate_level of the composite scores; in the others no participant
\* call was ever issued.
C11_DebateIffMetricsToDebate ==
  /\ DebateInvoked =>
       /\ harmonize_result.called
       /\ HarmonizationLogged
       /\ harmonize_result.ret.metrics_to_debate # <<>>
  /\ (/\ harmonize_result.called
      /\ HarmonizationLogged
      /\ harmonize_result.ret.metrics_to_debate # <<>>)
     => \/ DebateInvoked
        \/ pc \in {"yield_triggered", "yield_debating"}
        \/ ClosedEarly
  /\ ~DebateInvoked => calls = <<>>
  /\ harmonize_result.called => Len(ValidAnswers(responses)) >= 2

\* C11 witness: a session of three analysts saved without any debate, every
\* metric being aligned or same-tier, where the composite scores' spread makes
\* the debate_level "large".
C11_Witness ==
  /\ pc = "done" /\ outcome = "saved" /\ ~DebateInvoked
  /\ Len(filled_analyses) = 3
  /\ harmonize_result.called /\ harmonize_result.ret.metrics_to_debate = <<>>
  /\ \E k \in DOMAIN harmonize_result.ret.harmonization_log :
       harmonize_result.ret.harmonization_log[k].action = "harmonized"
  /\ calculate_agreement(filled_analyses).debate_level = "large"

\* the analysts whose call returned structured data with a composite score
Succeeded ==
  {i \in DOMAIN responses :
     /\ responses[i].status = "returned"
     /\ "financial_strenght" \in DOMAIN responses[i].data}

\* the analyses of the analysts that succeeded, in LLM_CONFIGS order
SucceededInOrder ==
  LET order == SelectSeq([i \in 1..Len(LLM_CONFIGS) |-> i], LAMBDA i : i \in Succeeded)
  IN  [k \in 1..Len(order) |-> responses[order[k]].data]

\* the analyses of the analysts up to the n-th that succeeded, in
\* LLM_CONFIGS order
SucceededUpTo(n) ==
  LET order == SelectSeq([i \in 1..n |-> i], LAMBDA i : i \in Succeeded)
  IN  [k \in 1..Len(order) |-> responses[order[k]].data]

\* the logger calls made while the responses are gone through all returned
FirstLogsReturned ==
  /\ Len(logged) >= 2 + Cardinality({i \in DOMAIN responses : responses[i].status = "returned"})
  /\ \A k \in DOMAIN logged :
       logged[k].call \in {"log_llm_timing", "log_llm_conversation"} => logged[k].ok

\* C12.  The three calls are running together from the start and, while the
\* session is at the calls, nothing has been processed, whichever of them are
\* over.  Past the calls none is running and no analyst's exception is what
\* ended the session; wherever the loop over the responses stands, the
\* session's answers are the analyses of the analysts up to there that
\* succeeded, in LLM_CONFIGS order; during a debate they are those of all
\* that succeeded and the consensus stages were given as many; in a session
\* that ended of itself, the logger permitting, that list filled is what the
\* stages worked on when it has two or more analyses, and it is the
\* session's answers, given to _save_stock_evals if there is one, when it has
\* fewer.
C12_SucceededIncludedInOrder ==
  /\ pc = "analysts" =>
       /\ LLM_Answers = <<>> /\ filled_analyses = <<>>
       /\ logged = <<LogCall("start_new_log", "", TRUE)>>
       /\ ~harmonize_result.called
       /\ \A i \in 1..Len(LLM_CONFIGS) :
            responses[i].status \in {"running", "returned", "raised"}
  /\ (pc # "analysts" /\ responses # <<>>) =>
       /\ \A i \in DOMAIN responses : responses[i].status # "running"
       /\ outcome = "error" => error \in {"OSError", "IndexError", "RuntimeError"}
       /\ CheckerFailed => saved.called
       /\ error = "OSError" => LogFailed \/ SaveFailed
  /\ pc = "yield_says" =>
       /\ analyst \in Succeeded
       /\ LLM_Answers = SucceededUpTo(analyst)
       /\ ~harmonize_result.called
  /\ pc = "debate" =>
       /\ LLM_Answers = SucceededInOrder
       /\ Len(filled_analyses) = Len(SucceededInOrder)
  /\ (EndedAfterAnalysts /\ FirstLogsReturned) =>
       IF Cardinality(Succeeded) >= 2
       THEN /\ filled_analyses = fill_missing_with_consensus(SucceededInOrder).filled
            /\ harmonize_result.called
       ELSE /\ LLM_Answers = SucceededInOrder
            /\ filled_analyses = <<>>
            /\ IF Succeeded = {}
               THEN outcome = "all_failed" /\ ~saved.called
               ELSE /\ outcome = "saved" \/ CheckerFailed \/ SaveFailed
                    /\ saved.called
                    /\ saved.recommendations_list
                         = <<Field(SucceededInOrder[1], "financial_strenght")>>

\* C12 witness: a saved session in which the second analyst's call raised and
\* the analyses of the first and the third went through the consensus stages,
\* the third's missing rating filled from the first's.
C12_Witness ==
  /\ pc = "done" /\ outcome = "saved"
  /\ responses[2].status = "raised"
  /\ Succeeded = {1, 3}
  /\ Len(filled_analyses) = 2
  /\ filled_analyses[1] = AnalystData(ticker_symbol, 1)
  /\ filled_analyses[2] # AnalystData(ticker_symbol, 3)
  /\ Field(filled_analyses[2], "financial_strenght")
       = Field(AnalystData(ticker_symbol, 3), "financial_strenght")
  /\ saved.recommendations_list
       = <<StrengthColumn[TickerOf(ticker_symbol)][1],
           StrengthColumn[TickerOf(ticker_symbol)][3]>>

\* the rating a final response names with a valid marker, None without one
FinalMarked(response) ==
  IF response = <<"F","I","N","A","L"," ","R","A","T","I","N","G",":"," ","G","o","o","d">> THEN <<"G","o","o","d">>
  ELSE IF response = <<"f","i","n","a","l"," ","r","a","t","i","n","g",":"," ","B","A","D",".">> THEN <<"B","a","d">>
  ELSE None

\* the rating a review response names with a valid marker, None without one
UpdateMarked(response) ==
  IF response = <<"U","P","D","A","T","E","D"," ","R","A","T","I","N","G",":"," ","B","a","d">> THEN <<"B","a","d">>
  ELSE IF response = <<"I"," ","u","p","d","a","t","e","d"," "," ","r","a","t","i","n","g",":","e","x","c","e","l","l","e","n","t","!">> THEN <<"E","x","c","e","l","l","e","n","t">>
  ELSE None

\* the results of the round the debate is in, in DEBATE_AGENTS order
RoundResults == Results(calls, Metric, RoundLabel(phase, round_num))

\* C13.  The step that gathers a final round takes exactly one vote from each
\* participant, in DEBATE_AGENTS order: the rating its response names with a
\* valid FINAL RATING marker, else (no marker, a word outside the five
\* ratings, a failed call) the rating it held when the review rounds ended;
\* the metric's final rating is the majority of these three votes.
C13_OneVoteEach ==
  [][(pc = "debate" /\ phase = "final" /\ debate_results' # debate_results) =>
       /\ Len(final_ratings') = Len(DEBATE_AGENTS)
       /\ \A p \in 1..Len(DEBATE_AGENTS) :
            final_ratings'[p] =
              IF FinalMarked(RoundResults[p]) # None
              THEN FinalMarked(RoundResults[p])
              ELSE positions[DEBATE_AGENTS[p]].rating
       /\ debate_results' =
            Append(debate_results,
                   [metric |-> Metric, final_rating |-> _get_majority_rating(final_ratings')])]_vars

\* C13 witness: a finished debate whose last final round had a participant's
\* call fail after that participant had changed its rating in the review
\* round: its vote is the changed rating, among three votes.
C13_Witness ==
  /\ pc = "done" /\ phase = "returned" /\ Len(final_ratings) = 3
  /\ \E c \in DOMAIN calls : \E p \in 1..Len(DEBATE_AGENTS) :
       /\ calls[c].round = "final" /\ calls[c].status = "raised"
       /\ calls[c].metric = Metric /\ calls[c].llm = DEBATE_AGENTS[p]
       /\ \E k \in DOMAIN position_changes :
            /\ position_changes[k].llm = DEBATE_AGENTS[p]
            /\ position_changes[k].metric = Metric
            /\ position_changes[k].to = final_ratings[p]
            /\ position_changes[k].from # final_ratings[p]

\* C14.  The step that gathers a review round, for each participant: the
\* response is appended to its history; if the response names with a valid
\* UPDATED RATING marker a rating that differs, letter case aside, from the
\* one it holds, that rating becomes its rating and one event (participant,
\* metric, from, to) is recorded; otherwise its rating stays and no event is
\* recorded.  The events are appended in DEBATE_AGENTS order.
C14_ReviewChanges ==
  [][(pc = "debate" /\ phase = "review" /\ transcript' # transcript) =>
       LET Changed(p) ==
             /\ UpdateMarked(RoundResults[p]) # None
             /\ Lower(UpdateMarked(RoundResults[p])) # Lower(positions[DEBATE_AGENTS[p]].rating)
           Event(p) ==
             [llm |-> DEBATE_AGENTS[p], metric |-> Metric,
              from |-> positions[DEBATE_AGENTS[p]].rating,
              to |-> UpdateMarked(RoundResults[p])]
           changed == SelectSeq([p \in 1..Len(DEBATE_AGENTS) |-> p], Changed)
       IN  /\ \A p \in 1..Len(DEBATE_AGENTS) :
                /\ positions'[DEBATE_AGENTS[p]].history =
                     Append(positions[DEBATE_AGENTS[p]].history, RoundResults[p])
                /\ positions'[DEBATE_AGENTS[p]].rating =
                     IF Changed(p) THEN UpdateMarked(RoundResults[p])
                     ELSE positions[DEBATE_AGENTS[p]].rating
           /\ changes' = changes \o [k \in 1..Len(changed) |-> Event(changed[k])]]_vars

\* C14 witness: after a review round, one participant has gone from Good to
\* Bad, with the event recorded, and another that held 'excellent' and
\* answered with a marker naming excellent has kept its rating without any
\* event; both have the response in their history.
C14_Witness ==
  /\ pc = "debate" /\ phase = "final"
  /\ \E a, b \in DOMAIN positions :
       /\ positions[a].rating = <<"B","a","d">>
       /\ changes = << [llm |-> a, metric |-> Metric, from |-> <<"G","o","o","d">>, to |-> <<"B","a","d">>] >>
       /\ positions[a].history[2] = <<"U","P","D","A","T","E","D"," ","R","A","T","I","N","G",":"," ","B","a","d">>
       /\ positions[b].rating = <<"e","x","c","e","l","l","e","n","t">>
       /\ positions[b].history[2] = <<"I"," ","u","p","d","a","t","e","d"," "," ","r","a","t","i","n","g",":","e","x","c","e","l","l","e","n","t","!">>

\* C4.  For every participant call that raised: its result is the error
\* placeholder; the session has not ended with an error, unless a call of the
\* logger raised, the save itself or the checker agent's call after it; the
\* entries of its round are either not yet recorded or recorded in full, the
\* placeholder among the other two participants' responses; they are
\* recorded once a later round of the metric has started; and once the debate
\* has returned every round of the metric is recorded in full and the metric
\* has a final rating;
\* a session that ended of itself then has called _save_stock_evals, unless
\* a call of the logger raised, and has the evaluation saved when that is
\* its outcome.
C4_ParticipantFailureRecorded ==
  \A c \in DOMAIN calls :
    calls[c].status = "raised" =>
      LET metric == calls[c].metric
          label  == calls[c].round
      IN  /\ calls[c].result = ErrorPlaceholder(ErrorMessage)
          /\ outcome = "error" => LogFailed \/ SaveFailed \/ (CheckerFailed /\ saved.called)
          /\ Recorded(metric, label) # <<>> => RecordedInFull(metric, label)
          /\ (\E d \in DOMAIN calls :
                /\ calls[d].metric = metric
                /\ IndexOf(RoundLabels, calls[d].round) > IndexOf(RoundLabels, label))
             => RecordedInFull(metric, label)
          /\ pc # "debate" =>
               /\ \A k \in DOMAIN RoundLabels : RecordedInFull(metric, RoundLabels[k])
               /\ Determined(metric)
          /\ EndedAfterAnalysts => saved.called \/ LogFailed
          /\ outcome = "saved" => Saved

\* C4 witness: a session saved after a debate in which a participant's call
\* raised in round 1 and another one's in a review round.
C4_Witness ==
  /\ pc = "done" /\ outcome = "saved"
  /\ \E c, d \in DOMAIN calls :
       /\ calls[c].status = "raised" /\ calls[c].round = "1"
       /\ calls[d].status = "raised" /\ calls[d].round = "2"
       /\ calls[c].metric = calls[d].metric /\ calls[c].llm # calls[d].llm
       /\ \E k \in DOMAIN all_transcripts :
            /\ all_transcripts[k].round = "2"
            /\ all_transcripts[k].llm = calls[d].llm
            /\ all_transcripts[k].content = ErrorPlaceholder(ErrorMessage)

\* C9.  A call that is over stays as it is, and calls are only ever added,
\* three at a time: one per participant in DEBATE_AGENTS order, running, of
\* one round of one metric.  The step that adds them finds no call running,
\* and when calls were issued before, the round is the one after the last
\* call's round of the same metric, or round 1 of another metric, and the
\* step leaves the three results of that last round recorded, in order, as
\* the latest entries of the metric's transcript (of the combined transcript
\* when the metric changes).
C9_RoundsSequential ==
  [][/\ Len(calls') >= Len(calls)
     /\ \A c \in DOMAIN calls : calls[c].status # "running" => calls'[c] = calls[c]
     /\ Len(calls') > Len(calls) =>
          \A n \in {Len(calls)} :
            /\ Len(calls') = n + Len(DEBATE_AGENTS)
            /\ \A p \in 1..Len(DEBATE_AGENTS) :
                 /\ calls'[n + p].llm = DEBATE_AGENTS[p]
                 /\ calls'[n + p].status = "running"
                 /\ calls'[n + p].metric = calls'[n + 1].metric
                 /\ calls'[n + p].round = calls'[n + 1].round
            /\ \A c \in DOMAIN calls : calls[c].status # "running"
            /\ n > 0 =>
                 \A recorded \in {IF calls'[n + 1].metric = calls[n].metric
                                  THEN transcript' ELSE all_transcripts'} :
                   /\ IF calls'[n + 1].metric = calls[n].metric
                      THEN IndexOf(RoundLabels, calls'[n + 1].round)
                             = IndexOf(RoundLabels, calls[n].round) + 1
                      ELSE calls'[n + 1].round = "1" /\ calls[n].round = "final"
                   /\ Len(recorded) >= Len(DEBATE_AGENTS)
                   /\ \A p \in 1..Len(DEBATE_AGENTS) :
                        recorded[Len(recorded) - Len(DEBATE_AGENTS) + p] =
                          [round |-> calls[n].round, metric |-> calls[n].metric,
                           llm |-> DEBATE_AGENTS[p],
                           content |-> calls[n - Len(DEBATE_AGENTS) + p].result]]_vars

\* C9 witness: the three calls of a review round in flight together, the last
\* participant's call over before the first one's, round 1 recorded.
C9_Witness ==
  /\ pc = "debate" /\ phase = "review"
  /\ \E c, d \in CallsOf(calls, Metric, "2") :
       /\ calls[c].llm = DEBATE_AGENTS[1] /\ calls[c].status = "running"
       /\ calls[d].llm = DEBATE_AGENTS[3] /\ calls[d].status = "returned"
  /\ RecordedInFull(Metric, "1")
  /\ Recorded(Metric, "2") = <<>>

\* C10.  Final ratings are determined in the order of metrics_to_debate; a
\* call for a metric is issued only after every call of the metrics before it
\* is over and their final ratings are determined; and in the combined
\* transcript the entries of a metric form one block, the blocks in the order
\* of metrics_to_debate (no entry is followed by one of an earlier metric).
C10_MetricsSequential ==
  calls # <<>> =>
    LET metrics == harmonize_result.ret.metrics_to_debate
    IN  /\ \A k \in DOMAIN debate_results : debate_results[k].metric = metrics[k]
        /\ \A a, b \in DOMAIN metrics :
             (a < b /\ CallsFor(metrics[b]) # {}) =>
               /\ CallsFor(metrics[a]) # {}
               /\ \A c \in CallsFor(metrics[a]) : calls[c].status # "running"
               /\ \A c \in CallsFor(metrics[a]), d \in CallsFor(metrics[b]) : c < d
               /\ Determined(metrics[a])
        /\ \A i \in DOMAIN all_transcripts :
             i < Len(all_transcripts) =>
               IndexOf(metrics, all_transcripts[i].metric)
                 <= IndexOf(metrics, all_transcripts[i + 1].metric)

\* C10 witness: the second disputed metric under debate, a call of it in
\* flight, the first metric's rating determined and its transcript block in
\* the combined transcript.
C10_Witness ==
  /\ pc = "debate" /\ metric_idx = 2
  /\ \E c \in DOMAIN calls : calls[c].metric = Metric /\ calls[c].status = "running"
  /\ Len(debate_results) = 1
  /\ Len(all_transcripts) = Len(RoundLabels) * Len(DEBATE_AGENTS)
  /\ \A i \in DOMAIN all_transcripts :
       all_transcripts[i].metric = harmonize_result.ret.metrics_to_debate[1]

(***************************************************************************)
(* Properties of the parse functions and of the report's score             *)
(***************************************************************************)

\* the number of metrics all_ratings gives the rating
CountRated(rating) == Cardinality({m \in DOMAIN all_ratings : all_ratings[m] = rating})

\* the verdict the thresholds give a score
VerdictOf(score) ==
  IF score <= 0 - 11 THEN "Extremely Risky"
  ELSE IF score \in (0 - 10)..(0 - 4) THEN "Risky"
  ELSE IF score \in (0 - 3)..3 THEN "Neutral"
  ELSE IF score \in 4..10 THEN "Safe"
  ELSE "Extremely Safe"

\* C15.  Whenever the log report or the PDF report has computed score and
\* verdict for an assignment of final ratings: the score is twice the number
\* of Excellent plus the number of Good minus the number of Bad minus twice
\* the number of Horrible (Neutral and COMPLEX count 0), it lies between -16
\* and +16, the verdict is the one of the thresholds -11, -4, 3 and 10, and
\* the two reports agree on both.
C15_ScoreAndVerdict ==
  LET expected == 2 * CountRated(<<"E","x","c","e","l","l","e","n","t">>) + CountRated(<<"G","o","o","d">>)
                    - CountRated(<<"B","a","d">>) - 2 * CountRated(<<"H","o","r","r","i","b","l","e">>)
      Right(r) == r.called =>
                    /\ r.score = expected
                    /\ r.score \in (0 - 2 * Len(ReportMetrics))..(2 * Len(ReportMetrics))
                    /\ r.verdict = VerdictOf(r.score)
  IN  /\ Right(report.log)
      /\ Right(report.pdf)
      /\ (report.log.called /\ report.pdf.called) => report.log = report.pdf

\* C15 witness: both reports computed for eight ratings with an unresolved
\* metric among them, the score 3 and the verdict Neutral.
C15_Witness ==
  /\ report.log.called /\ report.pdf.called
  /\ Cardinality(DOMAIN all_ratings) = Len(ReportMetrics)
  /\ CountRated(COMPLEX) > 0 /\ CountRated(<<"H","o","r","r","i","b","l","e">>) > 0
  /\ report.log.score = 3 /\ report.pdf.verdict = "Neutral"

\* the shape parse_metric_rating expects: a first token that is a rating word
\* in a text without the phrase
RatingShaped(s) ==
  /\ s # None /\ ~IsMissingText(s)
  /\ Split(s) # <<>> /\ Lower(Head(Split(s))) \in DOMAIN RATING_MAP

\* the shape parse_strength_score expects: a digit followed by /8 in a text
\* without the phrase
ScoreShaped(s) ==
  /\ s # None /\ ~IsMissingText(s)
  /\ ScoreMatches(s) # {}

\* C17 as stated.  Neither parse function raises for any text, and each
\* returns None for a text that does not have the shape it expects.
C17_ParseNeverRaises ==
  /\ parsed.rating.called =>
       /\ ~parsed.rating.ret.raised
       /\ ~RatingShaped(text) => parsed.rating.ret.value = NoInt
  /\ parsed.score.called =>
       (~ScoreShaped(text) => parsed.score.ret = NoInt)

\* C18.  For a text that contains 'not enough information' in any letter
\* case, both parse functions return None without raising, whatever else the
\* text holds.
C18_PhraseIsAuthoritative ==
  (text # None /\ Contains(Lower(text), NotEnoughInformation)) =>
    /\ parsed.rating.called =>
         (~parsed.rating.ret.raised /\ parsed.rating.ret.value = NoInt)
    /\ parsed.score.called => parsed.score.ret = NoInt

\* C18 witness: both functions called on a text that starts with a score, goes
\* on with a rating-free phrase in mixed case, and returned None.
C18_Witness ==
  /\ text = <<"7","/","8"," ","-"," ","n","o","t"," ","E","N","O","U","G","H"," ","i","n","f","o","r","m","a","t","i","o","n">>
  /\ parsed.rating.called /\ parsed.score.called
  /\ parsed.score.ret = NoInt /\ parsed.rating.ret.value = NoInt

(***************************************************************************)
(* Further properties of the consensus stages                              *)
(***************************************************************************)

\* the per-analyst ratings a log entry records
RecordedRatings(entry) ==
  IF "ratings" \in DOMAIN entry THEN entry.ratings ELSE entry.original

\* C23 as stated.  In every returned harmonization the log records an
\* analyst's rating of a metric as None exactly when parse_metric_rating gives
\* None for the rating text; and in every returned fill an analyst that is
\* alone in having a rating parse_metric_rating gives None for, while the
\* others agree on a first token, has got their rating.
C23_MissingIffUnparsed ==
  /\ (first_pass.called /\ ~first_pass.ret.raised) =>
       \A m \in MetricSet : \A i \in 1..Len(ArgOf(first_pass)) :
         (RecordedRatings(EntryOf(first_pass.ret, m))[i] = None)
           <=> (parse_metric_rating(Get(ArgOf(first_pass)[i], m, <<>>)).value = NoInt)
  /\ (filled.called /\ ~filled.ret.raised) =>
       \A m \in MetricSet :
         LET unparsed == {i \in 1..Len(analyses) :
                            parse_metric_rating(Get(analyses[i], m, <<>>)).value = NoInt}
             tokens   == {FirstWord(Get(analyses[i], m, <<>>)) :
                            i \in (1..Len(analyses)) \ unparsed}
         IN  (Cardinality(unparsed) = 1 /\ Cardinality(tokens) = 1)
             => \A i \in unparsed : \A t \in tokens :
                  Field(filled.ret.filled[i], m) = t

\* the highest number of occurrences of a rating in a list of lowered ratings
TopCount(lowered) ==
  CHOOSE c \in 0..Len(lowered) :
    /\ \A i \in 1..Len(lowered) : CountOf(lowered, lowered[i]) <= c
    /\ lowered = <<>> \/ \E i \in 1..Len(lowered) : CountOf(lowered, lowered[i]) = c

\* the ratings of a list that occur TopCount times
Tied(lowered) ==
  {lowered[i] : i \in {i \in 1..Len(lowered) : CountOf(lowered, lowered[i]) = TopCount(lowered)}}

\* C24.  In every returned harmonization, a metric recorded as harmonized
\* whose non-missing ratings tie in frequency has as result the tied rating
\* of the earliest analyst in list order, capitalized, and every analyst that
\* rates the metric carries that result.
C24_TieToEarliest ==
  (first_pass.called /\ ~first_pass.ret.raised) =>
    \A m \in MetricsWithAction(first_pass.ret, "harmonized") :
      LET ratings == CollectRatings(ArgOf(first_pass), m)
          valid   == SelectNotNone(ratings)
          lowered == [i \in 1..Len(valid) |-> Lower(valid[i])]
          tied    == Tied(lowered)
          first   == CHOOSE i \in 1..Len(valid) :
                       /\ lowered[i] \in tied
                       /\ \A j \in 1..(i - 1) : lowered[j] \notin tied
      IN  Cardinality(tied) >= 2 =>
            /\ EntryOf(first_pass.ret, m).result = Capitalize(lowered[first])
            /\ \A i \in 1..Len(ratings) :
                 ratings[i] # None =>
                   Field(first_pass.ret.harmonized_analyses[i], m) = Capitalize(lowered[first])

\* C24 witness: a harmonization returned for three analysts of which the
\* first says excellent, the second has no rating and the third says Good:
\* the metric is harmonized to Excellent, the third analyst's rating with it.
C24_Witness ==
  /\ first_pass.called /\ ~first_pass.ret.raised
  /\ Len(ArgOf(first_pass)) = 3
  /\ \E m \in MetricSet :
       /\ CollectRatings(ArgOf(first_pass), m) = <<<<"E","x","c","e","l","l","e","n","t">>, None, <<"G","o","o","d">>>>
       /\ EntryOf(first_pass.ret, m).action = "harmonized"
       /\ EntryOf(first_pass.ret, m).result = <<"E","x","c","e","l","l","e","n","t">>
       /\ Field(first_pass.ret.harmonized_analyses[3], m) = <<"E","x","c","e","l","l","e","n","t">>
       /\ Field(first_pass.ret.harmonized_analyses[2], m)
            = Field(ArgOf(first_pass)[2], m)

\* C27 as stated.  In every returned harmonization, the non-missing first
\* tokens of a metric recorded as harmonized are all Excellent or Good, or all
\* Bad or Horrible, in any letter case.
C27_HarmonizedWithinOneTier ==
  (first_pass.called /\ ~first_pass.ret.raised) =>
    \A m \in MetricsWithAction(first_pass.ret, "harmonized") :
      LET valid   == SelectNotNone(CollectRatings(ArgOf(first_pass), m))
          lowered == {Lower(valid[i]) : i \in 1..Len(valid)}
      IN  \/ lowered \subseteq {<<"e","x","c","e","l","l","e","n","t">>, <<"g","o","o","d">>}
          \/ lowered \subseteq {<<"b","a","d">>, <<"h","o","r","r","i","b","l","e">>}

\* C28.  When calculate_agreement and the harmonizer have both returned for
\* a list, every metric in metric_disagreements is in metrics_to_debate.
C28_DisagreementsDebated ==
  (/\ agreement.called /\ ~agreement.ret.raised
   /\ first_pass.called /\ ~first_pass.ret.raised) =>
    \A k \in DOMAIN agreement.ret.metric_disagreements :
      agreement.ret.metric_disagreements[k] \in SeqToSet(first_pass.ret.metrics_to_debate)

\* C28 witness: both have returned for three analysts whose ratings of a
\* metric are two points apart once the one outside the five words is left
\* out by calculate_agreement; the metric is a disagreement and is debated.
C28_Witness ==
  /\ agreement.called /\ ~agreement.ret.raised
  /\ first_pass.called /\ ~first_pass.ret.raised
  /\ Len(analyses) = 3
  /\ \E m \in MetricSet :
       /\ \E i \in 1..3 : Field(analyses[i], m) = <<"S","t","r","o","n","g">>
       /\ ParsedRatings(analyses, m) = <<4, 2>>
       /\ m \in SeqToSet(agreement.ret.metric_disagreements)
       /\ EntryOf(first_pass.ret, m).reason = "cross_tier_conflict"

(***************************************************************************)
(* Further properties of the debate                                        *)
(***************************************************************************)

\* the labels of the rounds of a debate of n rounds: 1, the n - 2 review
\* rounds 2 .. n - 1, final
LabelsOfRounds(n) == {"1", "final"} \cup {ToString(k) : k \in 2..(n - 1)}

\* the entries of the combined transcript for a metric
EntriesFor(metric) == SelectSeq(all_transcripts, LAMBDA e : e.metric = metric)

\* C21.  With run_debate called for N = max_rounds rounds: no participant is
\* ever called twice in a round of a metric, whether its call failed or not,
\* and no call belongs to a round other than 1, 2 .. N - 1, final; a metric
\* whose final rating is determined has had each participant called exactly
\* once in each of these N rounds and has exactly 3 * N transcript entries,
\* three per round.
C21_RoundsAndEntries ==
  \A m \in MetricSet :
    LET of_metric == CallsFor(m)
        labels    == LabelsOfRounds(max_rounds)
        entries   == EntriesFor(m)
    IN  /\ \A c, d \in of_metric :
             (calls[c].round = calls[d].round /\ calls[c].llm = calls[d].llm) => c = d
        /\ \A c \in of_metric : calls[c].round \in labels
        /\ Determined(m) =>
             /\ Cardinality(labels) = max_rounds
             /\ Cardinality(of_metric) = Len(DEBATE_AGENTS) * max_rounds
             /\ \A c \in of_metric : calls[c].status # "running"
             /\ Len(entries) = Len(DEBATE_AGENTS) * max_rounds
             /\ \A label \in labels :
                  Cardinality({k \in DOMAIN entries : entries[k].round = label})
                    = Len(DEBATE_AGENTS)

\* C21 witness: a debate of four rounds is over, a participant's call having
\* failed in the second review round, with twelve transcript entries.
C21_Witness ==
  /\ phase = "returned" /\ Len(debate_results) = 1
  /\ max_rounds = 4
  /\ Len(all_transcripts) = 12
  /\ \E c \in DOMAIN calls : calls[c].round = "3" /\ calls[c].status = "raised"

\* C25 as stated.  Every final rating in debate_results is one of the five
\* ratings or COMPLEX.
C25_FinalRatingIsARating ==
  \A k \in DOMAIN debate_results :
    debate_results[k].final_rating \in
      {<<"E","x","c","e","l","l","e","n","t">>, <<"G","o","o","d">>, <<"N","e","u","t","r","a","l">>, <<"B","a","d">>, <<"H","o","r","r","i","b","l","e">>, COMPLEX}

\* C26.  When response_quaterly applies the results of a debate, every
\* harmonized analysis gets the final rating of each metric that was resolved,
\* keeps the rating it had for each metric that ended as COMPLEX, and the
\* filled analyses that were passed to the debate stay as they were.
C26_ApplyEffect ==
  [][(pc = "debate" /\ phase = "final" /\ phase' = "returned") =>
       LET before == harmonize_result.ret.harmonized_analyses
           after  == harmonize_result'.ret.harmonized_analyses
       IN  /\ filled_analyses' = filled_analyses
           /\ Len(after) = Len(before)
           /\ DOMAIN debate_results' = 1..Len(harmonize_result.ret.metrics_to_debate)
           /\ \A k \in DOMAIN debate_results' :
                LET metric == debate_results'[k].metric
                    final_rating == debate_results'[k].final_rating
                IN  \A i \in 1..Len(after) :
                      IF final_rating # COMPLEX
                      THEN Field(after[i], metric) = final_rating
                      ELSE Field(after[i], metric) = Field(before[i], metric)]_vars

\* a debate of two metrics is over, one resolved and one COMPLEX on which the
\* harmonized analyses still differ, while the filled analyses differ from
\* the harmonized ones
C26_Witness ==
  /\ phase = "returned"
  /\ \E k \in DOMAIN debate_results :
       /\ debate_results[k].final_rating = COMPLEX
       /\ \E i, j \in 1..Len(harmonize_result.ret.harmonized_analyses) :
            Field(harmonize_result.ret.harmonized_analyses[i], debate_results[k].metric)
              # Field(harmonize_result.ret.harmonized_analyses[j], debate_results[k].metric)
  /\ \E k \in DOMAIN debate_results :
       /\ debate_results[k].final_rating # COMPLEX
       /\ \E i \in 1..Len(filled_analyses) :
            Field(filled_analyses[i], debate_results[k].metric) # debate_results[k].final_rating
  /\ filled_analyses # harmonize_result.ret.harmonized_analyses

\* the call of a participant in a round of a metric's debate
CallOf(metric, label, name) ==
  CHOOSE c \in DOMAIN calls :
    calls[c].metric = metric /\ calls[c].round = label /\ calls[c].llm = name

\* the rating a participant starts the debate of a metric with
SeedRating(metric, name) ==
  LET i == CHOOSE i \in 1..Len(DEBATE_AGENTS) : DEBATE_AGENTS[i] = name
  IN  Get(filled_analyses[i], metric, <<"U","n","k","n","o","w","n">>)

\* the rating a participant holds at the end of round n, from its seed and
\* its responses in the review rounds up to n
RECURSIVE RatingAfter(_, _, _)
RatingAfter(metric, name, n) ==
  IF n <= 1 THEN SeedRating(metric, name)
  ELSE LET before == RatingAfter(metric, name, n - 1)
           response == calls[CallOf(metric, ToString(n), name)].result
       IN  IF Changes(before, response)
           THEN _extract_updated_rating(response)
           ELSE before

\* C22.  A prompt is not changed once its call is issued, whatever the other
\* participants answer meanwhile, and the prompts of a review round, issued
\* together when the round before is gathered, show the participant's own
\* rating and each of the other two participants' rating as held at the end
\* of that round, and the start of the response each of them gave in it: an
\* update made in a round shows in no prompt of that round and in every
\* prompt of the next.
C22_ReviewPromptsShowPreviousRound ==
  [][/\ \A c \in DOMAIN calls : calls'[c].prompt = calls[c].prompt
     /\ \A c \in (DOMAIN calls') \ (DOMAIN calls) :
          calls'[c].round \notin {"1", "final"} =>
            LET n == CHOOSE k \in 2..MaxRoundCount : ToString(k) = calls'[c].round
                metric == calls'[c].metric
                others == SelectSeq(DEBATE_AGENTS, LAMBDA k : k # calls'[c].llm)
                shown == calls'[c].prompt.other_positions
            IN  /\ calls'[c].status = "running"
                /\ calls'[c].prompt.rating = RatingAfter(metric, calls'[c].llm, n - 1)
                /\ Len(shown) = Len(DEBATE_AGENTS) - 1
                /\ \A q \in 1..Len(shown) :
                     LET previous == calls[CallOf(metric, ToString(n - 1), others[q])]
                     IN  /\ shown[q].name = others[q]
                         /\ previous.status # "running"
                         /\ shown[q].rating = RatingAfter(metric, others[q], n - 1)
                         /\ shown[q].latest =
                              Truncated(previous.result, LatestArgumentLength) \o Ellipsis]_vars

\* in round 3 a participant's call is still running, its prompt showing the
\* rating another participant took in round 2, while that participant has
\* already answered round 3 with a further change of rating
C22_Witness ==
  \E c, d \in DOMAIN calls :
    /\ calls[c].round = "3" /\ calls[d].round = "3"
    /\ calls[c].metric = calls[d].metric
    /\ calls[c].llm # calls[d].llm
    /\ calls[c].status = "running"
    /\ calls[d].status = "returned"
    /\ \E q \in DOMAIN calls[c].prompt.other_positions :
         LET shown == calls[c].prompt.other_positions[q]
         IN  /\ shown.name = calls[d].llm
             /\ shown.rating # SeedRating(calls[d].metric, calls[d].llm)
             /\ Changes(shown.rating, calls[d].result)

\* the response a participant gave in a round of a metric's debate
ResponseIn(metric, label, name) == calls[CallOf(metric, label, name)].result

\* the k-th transcript entry of a metric's debate, from the responses alone:
\* the rounds in order, and in each round Socrates, Pythagoras, Diogenes
ExpectedEntry(metric, k) ==
  LET r     == ((k - 1) \div Len(DEBATE_AGENTS)) + 1
      label == IF r = max_rounds THEN "final" ELSE ToString(r)
      name  == DEBATE_AGENTS[((k - 1) % Len(DEBATE_AGENTS)) + 1]
  IN  [round |-> label, metric |-> metric, llm |-> name,
       content |-> ResponseIn(metric, label, name)]

\* the position changes of the review rounds up to n, from the seeds and the
\* responses alone
RECURSIVE ExpectedChanges(_, _)
ExpectedChanges(metric, n) ==
  IF n <= 1 THEN <<>>
  ELSE LET RECURSIVE Rest(_)
           Rest(p) ==
             IF p > Len(DEBATE_AGENTS) THEN <<>>
             ELSE LET name == DEBATE_AGENTS[p]
                      held == RatingAfter(metric, name, n - 1)
                      response == ResponseIn(metric, ToString(n), name)
                  IN  IF Changes(held, response)
                      THEN << [llm |-> name, metric |-> metric, from |-> held,
                               to |-> _extract_updated_rating(response)] >> \o Rest(p + 1)
                      ELSE Rest(p + 1)
       IN  ExpectedChanges(metric, n - 1) \o Rest(1)

\* the final rating of a metric's debate, from the seeds and the responses
ExpectedFinal(metric) ==
  _get_majority_rating(
    [p \in 1..Len(DEBATE_AGENTS) |->
       LET response == ResponseIn(metric, "final", DEBATE_AGENTS[p])
       IN  IF _extract_final_rating(response) # None
           THEN _extract_final_rating(response)
           ELSE RatingAfter(metric, DEBATE_AGENTS[p], max_rounds - 1)])

\* the review rounds of the metric under debate gathered so far
ReviewsGathered ==
  IF phase = "round1" THEN 1
  ELSE IF phase = "review" THEN round_num - 1
  ELSE max_rounds - 1

\* C29.  Whatever the order in which the calls of each round ended, the
\* transcript holds the rounds gathered so far with Socrates, Pythagoras,
\* Diogenes in that order in each, the recorded position changes are those the
\* responses make in that order, and the final rating of a debated metric is
\* the one the seeds and the responses give: nothing depends on the order of
\* completion.
C29_OutcomeIndependentOfCompletionOrder ==
  phase # "idle" =>
    /\ \A k \in DOMAIN transcript :
         transcript[k] = ExpectedEntry(transcript[k].metric, k)
    /\ changes = ExpectedChanges(Metric, ReviewsGathered)
    /\ \A k \in DOMAIN debate_results :
         LET metric == debate_results[k].metric
         IN  /\ Len(EntriesFor(metric)) = Len(DEBATE_AGENTS) * max_rounds
             /\ \A e \in DOMAIN EntriesFor(metric) :
                  EntriesFor(metric)[e] = ExpectedEntry(metric, e)
             /\ debate_results[k].final_rating = ExpectedFinal(metric)
             /\ SelectSeq(position_changes, LAMBDA ch : ch.metric = metric)
                  = ExpectedChanges(metric, max_rounds - 1)

\* a debate is over whose final calls ended in the order Diogenes,
\* Pythagoras, Socrates, with different responses of the first and the last,
\* after a review round that changed a rating
C29_Witness ==
  /\ phase = "returned"
  /\ Len(completed) = Len(DEBATE_AGENTS)
  /\ \A p \in 1..Len(DEBATE_AGENTS) :
       /\ calls[completed[p]].round = "final"
       /\ calls[completed[p]].llm = DEBATE_AGENTS[Len(DEBATE_AGENTS) + 1 - p]
  /\ calls[completed[1]].result # calls[completed[3]].result
  /\ position_changes # <<>>
  /\ Len(debate_results) = 1

\* run_debate has returned with one final rating, not empty, for every metric
\* of metrics_to_debate, in their order, and no call is left running
ReturnedComplete ==
  LET metrics == harmonize_result.ret.metrics_to_debate
  IN  /\ phase = "returned"
      /\ Len(debate_results) = Len(metrics)
      /\ \A k \in DOMAIN debate_results :
           /\ debate_results[k].metric = metrics[k]
           /\ debate_results[k].final_rating \notin {None, <<>>}
      /\ \A c \in DOMAIN calls : calls[c].status # "running"

\* C30 as stated.  When every call ends and the event loop resumes what can
\* be resumed, a run_debate that was called returns, and debate_results then
\* holds one final rating for every metric of metrics_to_debate, none skipped
\* and no call pending.
C30_DebateReturnsComplete == DebateInvoked ~> ReturnedComplete

====
